---- MODULE Spec2Model ----
(***************************************************************************)
(* A model of parsercher: the scanning cursor (parser/input.rs), the       *)
(* lexical segmenter and tree reducer (parser/mod.rs), the node model      *)
(* (dom/), the tag predicate (dom/tag.rs) and the queries (searcher.rs).   *)
(*                                                                         *)
(* Representation.  A Rust String is a sequence of one-character strings.  *)
(* An Option<T> is a sequence of length at most one: None is << >> and     *)
(* Some(x) is <<x>>.  A HashMap<String, String> is a function from its key *)
(* set to values.  A Result is a record with an ok flag.  Cursor values    *)
(* and indices are 0-based as in the code; At(inp, i) reads inp[i].        *)
(***************************************************************************)
EXTENDS Integers, Sequences, FiniteSets, TLC

VARIABLES
    pc,        \* position of the running call
    doc,       \* parse: the text handed to parse()
    input,     \* parse: Input.input, the trimmed buffer
    cursor,    \* parse: Input.cursor
    dom_vec,   \* parse: the flat fragment sequence of create_dom_vec
    root_dom,  \* parse: Option<Dom>, the tree parse() returns
    err,       \* parse: Option<String>, the error parse() returns
    p,         \* satisfy_sufficient_condition: the pattern Tag
    q,         \* satisfy_sufficient_condition: the candidate Tag
    sat,       \* satisfy_sufficient_condition: Option<bool>, its result
    dom,       \* queries: the document tree
    needle,    \* queries: the pattern (a Dom; the flat queries use its Tag)
    out        \* queries: Option<result>

vars == <<pc, doc, input, cursor, dom_vec, root_dom, err, p, q, sat, dom, needle, out>>

parseVars == <<doc, input, cursor, dom_vec, root_dom, err>>
tagVars == <<p, q, sat>>
queryVars == <<dom, needle, out>>

None == << >>
Some(x) == <<x>>
IsSome(o) == o # << >>
IsNone(o) == o = << >>
Unwrap(o) == o[1]

\* `let v = e;`: e is evaluated once and v stands for its value in Op
Let(e, Op(_)) == CHOOSE y \in {Op(v) : v \in {e}} : TRUE

(***************************************************************************)
(* Bounds of the model.                                                    *)
(***************************************************************************)
\* fragments per document text (parser specifications)
MaxFrags == 4
\* nodes per document tree (query specification)
MaxNodes == 3
MaxAttrs == 3
\* pieces of a text with comments and quoted values
MaxPieces == 4
\* nodes per tree compared by Dom::p_implies_q_tree
MaxTreeNodes == 3
\* fragments of a text with tags opened inside tags of the same name
MaxNest == 6
\* characters of a text handed to Input::new
MaxInput == 4

(***************************************************************************)
(* dom/tag.rs                                                              *)
(***************************************************************************)
EmptyMap == [k \in {} |-> << >>]

\* Tag::new
TagNew(name) ==
    [name |-> name, attrs |-> None, terminated |-> FALSE, terminator |-> FALSE]

MapInsert(m, k, v) == [x \in DOMAIN m \cup {k} |-> IF x = k THEN v ELSE m[x]]

MapRemove(m, k) == [x \in DOMAIN m \ {k} |-> m[x]]

\* Tag::set_attrs
set_attrs(tag, m) == [tag EXCEPT !.attrs = Some(m)]

\* Tag::set_attr
set_attr(tag, k, v) ==
    IF IsSome(tag.attrs)
    THEN [tag EXCEPT !.attrs = Some(MapInsert(Unwrap(tag.attrs), k, v))]
    ELSE [tag EXCEPT !.attrs = Some(MapInsert(EmptyMap, k, v))]

\* Tag::get_attr
get_attr(tag, k) ==
    IF IsSome(tag.attrs) /\ k \in DOMAIN Unwrap(tag.attrs)
    THEN Some(Unwrap(tag.attrs)[k])
    ELSE None

\* A plausible slip of satisfy_sufficient_condition: q must hold exactly the
\* attribute names of p.
satisfy_same_keys(pt, qt) ==
    /\ qt.name = pt.name
    /\ IsSome(pt.attrs) =>
          /\ IsSome(qt.attrs)
          /\ DOMAIN Unwrap(qt.attrs) = DOMAIN Unwrap(pt.attrs)
          /\ \A k \in DOMAIN Unwrap(pt.attrs) :
                ~(Unwrap(pt.attrs)[k] # << >>
                    /\ Unwrap(pt.attrs)[k] # Unwrap(qt.attrs)[k])

\* A plausible slip of satisfy_sufficient_condition: the `None` arm taken
\* for p as well, a p without mapping satisfied by nothing.
satisfy_requires_mapping(pt, qt) ==
    /\ qt.name = pt.name
    /\ IsSome(pt.attrs)
    /\ IsSome(qt.attrs)
    /\ \A k \in DOMAIN Unwrap(pt.attrs) :
          /\ k \in DOMAIN Unwrap(qt.attrs)
          /\ ~(Unwrap(pt.attrs)[k] # << >>
                /\ Unwrap(pt.attrs)[k] # Unwrap(qt.attrs)[k])

\* A plausible slip of satisfy_sufficient_condition: an empty value is a
\* wildcard on either side.
satisfy_wildcard_either_side(pt, qt) ==
    /\ qt.name = pt.name
    /\ IsSome(pt.attrs) =>
          /\ IsSome(qt.attrs)
          /\ \A k \in DOMAIN Unwrap(pt.attrs) :
                /\ k \in DOMAIN Unwrap(qt.attrs)
                /\ ~(Unwrap(pt.attrs)[k] # << >>
                      /\ Unwrap(qt.attrs)[k] # << >>
                      /\ Unwrap(pt.attrs)[k] # Unwrap(qt.attrs)[k])

\* satisfy_sufficient_condition(p, q).  The for loop over p's entries with its
\* two breaks sets `satisfied` to false as soon as one entry fails, so the
\* result is the conjunction over all entries.
satisfy_sufficient_condition(pt, qt) ==
    /\ qt.name = pt.name
    /\ IsSome(pt.attrs) =>
          /\ IsSome(qt.attrs)
          /\ \A k \in DOMAIN Unwrap(pt.attrs) :
                /\ k \in DOMAIN Unwrap(qt.attrs)
                /\ ~(Unwrap(pt.attrs)[k] # << >>
                      /\ Unwrap(pt.attrs)[k] # Unwrap(qt.attrs)[k])

(***************************************************************************)
(* dom/mod.rs, dom/text.rs, dom/comment.rs                                 *)
(***************************************************************************)
\* Dom::new
DomNew(dom_type) ==
    [dom_type |-> dom_type, tag |-> None, text |-> None, comment |-> None,
     children |-> None]

\* Dom::set_tag, Dom::set_text (Text::new), Dom::set_comment (Comment::new)
set_tag(d, tag) == [d EXCEPT !.tag = Some(tag)]
set_text(d, s) == [d EXCEPT !.text = Some([text |-> s])]
set_comment(d, s) == [d EXCEPT !.comment = Some([comment |-> s])]

\* Dom::new_root
new_root == set_tag(DomNew("Tag"), TagNew(<<"r", "o", "o", "t">>))

\* A plausible slip of add_child: the child put in front.
add_child_front(d, child) ==
    IF IsSome(d.children)
    THEN [d EXCEPT !.children = Some(<<child>> \o Unwrap(d.children))]
    ELSE [d EXCEPT !.children = Some(<<child>>)]

\* Dom::add_child
add_child(d, child) ==
    IF IsSome(d.children)
    THEN [d EXCEPT !.children = Some(Append(Unwrap(d.children), child))]
    ELSE [d EXCEPT !.children = Some(<<child>>)]

\* The Vec behind Dom::get_children, empty when there is none.
Kids(d) == IF IsSome(d.children) THEN Unwrap(d.children) ELSE << >>

(***************************************************************************)
(* parser/input.rs: the scanning cursor.  The buffer never changes after   *)
(* Input::new, so every method is an operator of (buffer, cursor).         *)
(***************************************************************************)
At(inp, i) == inp[i + 1]

IsSpace(c) == c = " " \/ c = "\n"

\* str::trim_end, for the whitespace characters the model's alphabet has
RECURSIVE trim_end(_)
trim_end(s) ==
    IF s # << >> /\ IsSpace(s[Len(s)]) THEN trim_end(SubSeq(s, 1, Len(s) - 1)) ELSE s

\* Input::new: Err exactly when the text itself is empty
InputNew(text) ==
    IF Len(text) = 0
    THEN [ok |-> FALSE, input |-> << >>, err |-> "input is empty."]
    ELSE [ok |-> TRUE, input |-> trim_end(text), err |-> ""]

\* Input::set_cursor
set_cursor(inp, c) == IF Len(inp) <= c THEN Len(inp) - 1 ELSE c

\* Input::next
next(inp, cur) == IF Len(inp) - 1 <= cur THEN cur ELSE cur + 1

\* the for loop of Input::next_char: one more per leading ' ' or '\n' from i on
RECURSIVE SkipRun(_, _)
SkipRun(inp, i) ==
    IF i < Len(inp) /\ IsSpace(At(inp, i)) THEN SkipRun(inp, i + 1) ELSE i

\* Input::next_char
next_char(inp, cur) ==
    IF Len(inp) - 1 <= cur THEN cur ELSE SkipRun(inp, cur + 1)

\* Input::is_end
is_end(inp, cur) == cur = Len(inp) - 1

\* Input::expect
expect(inp, cur, exp) == At(inp, cur) = exp

\* Input::expect_str
expect_str(inp, cur, exp) ==
    IF Len(inp) < cur + Len(exp) THEN FALSE
    ELSE \A i \in 0 .. Len(exp) - 1 : exp[i + 1] = At(inp, cur + i)

\* the for loop of Input::find
RECURSIVE FindFrom(_, _, _)
FindFrom(inp, i, c) ==
    IF i >= Len(inp) THEN None
    ELSE IF At(inp, i) = c THEN Some(i)
    ELSE FindFrom(inp, i + 1, c)

\* Input::find
find(inp, cur, c) == IF Len(inp) <= cur THEN None ELSE FindFrom(inp, cur, c)

\* The inner while of Input::find_str ("second and subsequent characters"):
\* "found", "none" (the buffer ended inside the needle) or "break".
RECURSIVE FindStrInner(_, _, _, _)
FindStrInner(inp, nd, i, j) ==
    IF ~(j < Len(nd)) THEN "break"
    ELSE IF Len(inp) <= i THEN "none"
    ELSE IF At(inp, i) = nd[j + 1]
         THEN IF j = Len(nd) - 1 THEN "found"
              ELSE FindStrInner(inp, nd, i + 1, j + 1)
         ELSE "break"

\* A plausible slip of Input::find_str: `i = bgn_idx + 1` is left out, so
\* that after a partial match the search goes on where the match broke.
RECURSIVE FindStrOuterNoRestart(_, _, _)
FindStrOuterNoRestart(inp, nd, i) ==
    IF ~(i < Len(inp)) THEN None
    ELSE IF At(inp, i) = nd[1]
         THEN IF Len(nd) = 1 THEN Some(i)
              ELSE LET r == FindStrInner(inp, nd, i + 1, 1) IN
                   IF r = "found" THEN Some(i)
                   ELSE IF r = "none" THEN None
                   ELSE FindStrOuterNoRestart(inp, nd,
                            CHOOSE m \in i + 1 .. Len(inp) - 1 :
                                /\ At(inp, m) # nd[m - i + 1]
                                /\ \A k \in i + 1 .. m - 1 : At(inp, k) = nd[k - i + 1])
         ELSE FindStrOuterNoRestart(inp, nd, i + 1)

\* The outer while of Input::find_str, from index i.
RECURSIVE FindStrOuter(_, _, _)
FindStrOuter(inp, nd, i) ==
    IF ~(i < Len(inp)) THEN None
    ELSE IF At(inp, i) = nd[1]
         THEN IF Len(nd) = 1 THEN Some(i)
              ELSE LET r == FindStrInner(inp, nd, i + 1, 1) IN
                   IF r = "found" THEN Some(i)
                   ELSE IF r = "none" THEN None
                   ELSE FindStrOuter(inp, nd, i + 1)
         ELSE FindStrOuter(inp, nd, i + 1)

\* Input::find_str
find_str(inp, cur, nd) == IF Len(inp) <= cur THEN None ELSE FindStrOuter(inp, nd, cur)

\* The indices at which Input::find reads self.input: every `self.input[i]`
\* of its for loop from index i
RECURSIVE FindFromReads(_, _, _)
FindFromReads(inp, i, c) ==
    IF i >= Len(inp) THEN {}
    ELSE {i} \cup (IF inp[i + 1] = c THEN {} ELSE FindFromReads(inp, i + 1, c))

find_reads(inp, cur, c) == IF Len(inp) <= cur THEN {} ELSE FindFromReads(inp, cur, c)

\* The indices at which the inner while of Input::find_str reads self.input
RECURSIVE FindStrInnerReads(_, _, _, _)
FindStrInnerReads(inp, nd, i, j) ==
    IF ~(j < Len(nd)) THEN {}
    ELSE IF Len(inp) <= i THEN {}
    ELSE {i} \cup (IF inp[i + 1] = nd[j + 1] /\ j # Len(nd) - 1
                   THEN FindStrInnerReads(inp, nd, i + 1, j + 1)
                   ELSE {})

\* The indices at which the outer while of Input::find_str reads self.input
RECURSIVE FindStrOuterReads(_, _, _)
FindStrOuterReads(inp, nd, i) ==
    IF ~(i < Len(inp)) THEN {}
    ELSE {i} \cup
         (IF inp[i + 1] = nd[1]
          THEN IF Len(nd) = 1 THEN {}
               ELSE FindStrInnerReads(inp, nd, i + 1, 1) \cup
                    (IF FindStrInner(inp, nd, i + 1, 1) = "break"
                     THEN FindStrOuterReads(inp, nd, i + 1)
                     ELSE {})
          ELSE FindStrOuterReads(inp, nd, i + 1))

find_str_reads(inp, cur, nd) ==
    IF Len(inp) <= cur THEN {} ELSE FindStrOuterReads(inp, nd, cur)

\* Input::get_string
get_string(inp, bgn, end) ==
    IF end <= bgn THEN [ok |-> FALSE, val |-> << >>, err |-> "invalid range"]
    ELSE IF Len(inp) <= end THEN [ok |-> FALSE, val |-> << >>, err |-> "out of input"]
    ELSE [ok |-> TRUE, val |-> SubSeq(inp, bgn + 1, end), err |-> ""]

(***************************************************************************)
(* parser/mod.rs: the lexical segmenter.  Every parse_* function moves the *)
(* cursor and returns a Result; its operator returns both.                 *)
(***************************************************************************)
ErrTag == "Input ends in the middle of the tag"
ErrQuote == "Input ends in the middle of double quote"
ErrComment == "Input ends in the middle of the comment"

Ok(cur, val) == [ok |-> TRUE, err |-> "", cursor |-> cur, val |-> val]
Fail(cur, e) == [ok |-> FALSE, err |-> e, cursor |-> cur, val |-> << >>]

\* parse_tag_attr_value
parse_tag_attr_value(inp, cur, dlmt) ==
    Let(next(inp, cur), LAMBDA value_bgn :
    Let(find(inp, value_bgn, dlmt), LAMBDA f :
        IF IsNone(f) THEN Fail(value_bgn, ErrQuote)
        ELSE IF value_bgn = Unwrap(f) THEN Ok(value_bgn, << >>)
        ELSE Let(get_string(inp, value_bgn, Unwrap(f)), LAMBDA g :
                 IF g.ok THEN Ok(set_cursor(inp, Unwrap(f)), g.val)
                 ELSE Fail(set_cursor(inp, Unwrap(f)), g.err))))

\* parse_tag_attr, the "get value" part of one loop turn (lines 184-207):
\* the cursor stands at attr_end.
AttrValue(inp, cur, tag_end) ==
    IF cur # tag_end
    THEN Let(find(inp, cur, "="), LAMBDA f :
             IF IsSome(f) /\ Unwrap(f) < tag_end
             THEN Let(next_char(inp, set_cursor(inp, Unwrap(f))), LAMBDA c :
                      IF expect(inp, c, "\"") THEN parse_tag_attr_value(inp, c, "\"")
                      ELSE IF expect(inp, c, "'") THEN parse_tag_attr_value(inp, c, "'")
                      ELSE Ok(c, << >>))
             ELSE Ok(cur, << >>))
    ELSE Ok(cur, << >>)

\* parse_tag_attr, the end position of the attribute name (lines 163-179)
AttrEnd(inp, cur, tag_end) ==
    Let(find(inp, cur, "="), LAMBDA eq :
    Let(IF IsSome(eq) /\ Unwrap(eq) < tag_end THEN Unwrap(eq) ELSE tag_end, LAMBDA e1 :
    Let(find(inp, cur, " "), LAMBDA sp :
        IF IsSome(sp) /\ Unwrap(sp) < e1 THEN Unwrap(sp) ELSE e1)))

\* parse_tag_attr, the loop (lines 159-217); val is attr_map
RECURSIVE AttrLoop(_, _, _, _)
AttrLoop(inp, cur, tag_end, attr_map) ==
    IF expect(inp, cur, ">") THEN Ok(next(inp, cur), attr_map)
    ELSE Let(AttrEnd(inp, cur, tag_end), LAMBDA attr_end :
         Let(get_string(inp, cur, attr_end), LAMBDA nm :
             IF ~nm.ok THEN Fail(set_cursor(inp, attr_end), nm.err)
             ELSE Let(AttrValue(inp, set_cursor(inp, attr_end), tag_end), LAMBDA v :
                  IF ~v.ok THEN Fail(v.cursor, v.err)
                  ELSE Let(MapInsert(attr_map, nm.val, v.val), LAMBDA m :
                       IF expect(inp, v.cursor, ">") THEN Ok(next(inp, v.cursor), m)
                       ELSE Let(next_char(inp, v.cursor), LAMBDA c :
                                AttrLoop(inp, c, tag_end, m))))))

\* parse_tag_attr; val is the Tag
parse_tag_attr(inp, cur, tag) ==
    Let(find(inp, cur, ">"), LAMBDA f :
        IF IsNone(f) THEN Fail(cur, ErrTag)
        ELSE Let(AttrLoop(inp, cur, Unwrap(f), EmptyMap), LAMBDA r :
                 IF ~r.ok THEN r
                 ELSE IF <<"/">> \in DOMAIN r.val
                      THEN Ok(r.cursor,
                              set_attrs([tag EXCEPT !.terminated = TRUE],
                                        MapRemove(r.val, <<"/">>)))
                      ELSE Ok(r.cursor, set_attrs(tag, r.val))))

\* parse_tag_name; val is the Tag
parse_tag_name(inp, cur, terminator) ==
    Let(find(inp, cur, ">"), LAMBDA f :
        IF IsNone(f) THEN Fail(cur, ErrTag)
        ELSE
        Let(find(inp, cur, " "), LAMBDA sp :
        Let(IF IsSome(sp) /\ Unwrap(sp) < Unwrap(f) THEN Unwrap(sp) ELSE Unwrap(f),
            LAMBDA name_end :
        Let(set_cursor(inp, name_end), LAMBDA c1 :
        Let(get_string(inp, cur, name_end), LAMBDA nm :
            IF ~nm.ok THEN Fail(c1, nm.err)
            ELSE
            Let([TagNew(nm.val) EXCEPT !.terminator = terminator], LAMBDA tag :
                IF expect(inp, c1, ">") THEN Ok(next(inp, c1), tag)
                ELSE Let(next_char(inp, c1), LAMBDA c2 :
                         IF expect(inp, c2, ">") THEN Ok(next(inp, c2), tag)
                         ELSE parse_tag_attr(inp, c2, tag))))))))

\* parse_tag; val is the Dom
parse_tag(inp, cur) ==
    Let(next(inp, cur), LAMBDA c1 :
    Let(expect(inp, c1, "/"), LAMBDA terminator :
    Let(parse_tag_name(inp, IF terminator THEN next(inp, c1) ELSE c1, terminator),
        LAMBDA r :
        IF r.ok THEN Ok(r.cursor, set_tag(DomNew("Tag"), r.val)) ELSE r)))

\* A plausible slip of parse_comment: a comment without `-->` runs to the end
\* of the input, as a text without '<' does.
parse_comment_to_end(inp, cur) ==
    Let(find_str(inp, cur, <<"-", "-", ">">>), LAMBDA f :
    Let(IF IsSome(f) THEN Unwrap(f) ELSE Len(inp) - 1, LAMBDA e :
    Let(get_string(inp, cur + 4, e), LAMBDA g :
        IF g.ok
        THEN Ok(set_cursor(inp, e + 3), set_comment(DomNew("Comment"), g.val))
        ELSE Ok(set_cursor(inp, e + 3), set_comment(DomNew("Comment"), << >>)))))

\* parse_comment; val is the Dom
parse_comment(inp, cur) ==
    Let(find_str(inp, cur, <<"-", "-", ">">>), LAMBDA f :
        IF IsNone(f) THEN Fail(cur, ErrComment)
        ELSE Let(get_string(inp, cur + 4, Unwrap(f)), LAMBDA g :
                 IF g.ok
                 THEN Ok(set_cursor(inp, Unwrap(f) + 3), set_comment(DomNew("Comment"), g.val))
                 ELSE Fail(set_cursor(inp, Unwrap(f) + 3), g.err)))

\* parse_text; val is the Dom
parse_text(inp, cur) ==
    Let(find(inp, cur, "<"), LAMBDA f :
    Let(IF IsSome(f) THEN set_cursor(inp, Unwrap(f)) ELSE next_char(inp, cur), LAMBDA c1 :
    Let(get_string(inp, cur, IF IsSome(f) THEN Unwrap(f) ELSE c1), LAMBDA g :
        IF g.ok THEN Ok(c1, set_text(DomNew("Text"), g.val)) ELSE Fail(c1, g.err))))

ScriptName == <<"s", "c", "r", "i", "p", "t">>
ScriptEnd == <<"<", "/">> \o ScriptName

\* A plausible slip of parse_text_script: the text cut at the next '<', as
\* ordinary text is.
parse_text_script_to_lt(inp, cur) == parse_text(inp, cur)

\* parse_text_script; val is the Dom
parse_text_script(inp, cur) ==
    Let(find_str(inp, cur, ScriptEnd), LAMBDA f :
        IF IsNone(f) THEN Fail(cur, ErrTag)
        ELSE Let(get_string(inp, cur, Unwrap(f)), LAMBDA g :
                 IF g.ok THEN Ok(set_cursor(inp, Unwrap(f)), set_text(DomNew("Text"), g.val))
                 ELSE Fail(set_cursor(inp, Unwrap(f)), g.err)))

\* create_dom_vec, lines 433-438: the dom is an opening script tag
IsBgnScript(d) ==
    /\ Unwrap(d.tag).name = ScriptName
    /\ ~Unwrap(d.tag).terminator

\* create_dom_vec, one turn of `while !input.is_end()` (lines 423-468);
\* val is dom_vec after the turn
LoopTurn(inp, cur, vec) ==
    IF expect_str(inp, cur, <<"<", "!", "-", "-">>)
    THEN Let(parse_comment(inp, cur), LAMBDA r :
             IF r.ok THEN Ok(r.cursor, Append(vec, r.val)) ELSE r)
    ELSE IF expect(inp, cur, "<")
    THEN Let(parse_tag(inp, cur), LAMBDA r :
             IF ~r.ok THEN r
             ELSE IF IsBgnScript(r.val) /\ ~expect(inp, r.cursor, "<")
                  THEN Let(parse_text_script(inp, r.cursor), LAMBDA t :
                           IF t.ok THEN Ok(t.cursor, Append(Append(vec, r.val), t.val))
                           ELSE t)
                  ELSE Ok(r.cursor, Append(vec, r.val)))
    ELSE Let(IF expect(inp, cur, " ") \/ expect(inp, cur, "\n")
             THEN next_char(inp, cur) ELSE cur, LAMBDA c1 :
             IF ~expect(inp, c1, "<")
             THEN Let(parse_text(inp, c1), LAMBDA r :
                      IF r.ok THEN Ok(r.cursor, Append(vec, r.val)) ELSE r)
             ELSE Ok(c1, vec))

(***************************************************************************)
(* parser/mod.rs: the tree reducer.                                        *)
(***************************************************************************)
IsTag(d) == d.dom_type = "Tag"

\* the while loop of search_terminator, from index i (0-based)
RECURSIVE TerminatorFrom(_, _, _)
TerminatorFrom(vec, starter, i) ==
    IF ~(i < Len(vec)) THEN None
    ELSE IF /\ IsTag(vec[i + 1])
            /\ Unwrap(vec[i + 1].tag).terminator
            /\ starter.name = Unwrap(vec[i + 1].tag).name
         THEN Some(i)
         ELSE TerminatorFrom(vec, starter, i + 1)

\* search_terminator
search_terminator(vec, starter) == TerminatorFrom(vec, starter, 0)

\* A plausible slip of create_dom_tree: the closing marker right behind its
\* opening tag is left in dom_vec.
RECURSIVE create_dom_tree_adjacent_kept(_, _)
create_dom_tree_adjacent_kept(vec, parent) ==
    IF vec = << >> THEN [vec |-> vec, parent |-> parent]
    ELSE Let(Head(vec), LAMBDA d :
         Let(Tail(vec), LAMBDA rest :
             IF IsTag(d) /\ Unwrap(d.tag).terminator
             THEN [vec |-> rest, parent |-> parent]
             ELSE IF IsTag(d) /\ ~Unwrap(d.tag).terminated
             THEN Let(search_terminator(rest, Unwrap(d.tag)), LAMBDA t :
                      IF IsNone(t) \/ Unwrap(t) = 0
                      THEN create_dom_tree_adjacent_kept(rest, add_child(parent, d))
                      ELSE Let(create_dom_tree_adjacent_kept(rest, d), LAMBDA r :
                               create_dom_tree_adjacent_kept(r.vec, add_child(parent, r.parent))))
             ELSE create_dom_tree_adjacent_kept(rest, add_child(parent, d))))

\* A plausible variant of create_dom_tree: the children of a tag are reduced
\* from the fragments before its first same-named closer only.
RECURSIVE create_dom_tree_to_first_closer(_, _)
create_dom_tree_to_first_closer(vec, parent) ==
    IF vec = << >> THEN [vec |-> vec, parent |-> parent]
    ELSE Let(Head(vec), LAMBDA d :
         Let(Tail(vec), LAMBDA rest :
             IF IsTag(d) /\ Unwrap(d.tag).terminator
             THEN [vec |-> rest, parent |-> parent]
             ELSE IF IsTag(d) /\ ~Unwrap(d.tag).terminated
             THEN Let(search_terminator(rest, Unwrap(d.tag)), LAMBDA t :
                      IF IsNone(t) THEN create_dom_tree_to_first_closer(rest, add_child(parent, d))
                      ELSE IF Unwrap(t) = 0
                      THEN create_dom_tree_to_first_closer(Tail(rest), add_child(parent, d))
                      ELSE Let(create_dom_tree_to_first_closer(SubSeq(rest, 1, Unwrap(t)), d),
                               LAMBDA r :
                               create_dom_tree_to_first_closer(
                                   SubSeq(rest, Unwrap(t) + 2, Len(rest)),
                                   add_child(parent, r.parent))))
             ELSE create_dom_tree_to_first_closer(rest, add_child(parent, d))))

\* A plausible slip of create_dom_tree: a closing marker is not told from
\* an opening tag, so that it is added to the tree.
RECURSIVE create_dom_tree_keep_closer(_, _)
create_dom_tree_keep_closer(vec, parent) ==
    IF vec = << >> THEN [vec |-> vec, parent |-> parent]
    ELSE Let(Head(vec), LAMBDA d :
         Let(Tail(vec), LAMBDA rest :
             IF IsTag(d) /\ ~Unwrap(d.tag).terminated
             THEN Let(search_terminator(rest, Unwrap(d.tag)), LAMBDA t :
                      IF IsNone(t) THEN create_dom_tree_keep_closer(rest, add_child(parent, d))
                      ELSE IF Unwrap(t) = 0
                      THEN create_dom_tree_keep_closer(Tail(rest), add_child(parent, d))
                      ELSE Let(create_dom_tree_keep_closer(rest, d), LAMBDA r :
                               create_dom_tree_keep_closer(r.vec, add_child(parent, r.parent))))
             ELSE create_dom_tree_keep_closer(rest, add_child(parent, d))))

\* A plausible slip of create_dom_tree: the terminator is looked for also
\* after a self-closed tag.
RECURSIVE create_dom_tree_any_tag(_, _)
create_dom_tree_any_tag(vec, parent) ==
    IF vec = << >> THEN [vec |-> vec, parent |-> parent]
    ELSE Let(Head(vec), LAMBDA d :
         Let(Tail(vec), LAMBDA rest :
             IF IsTag(d) /\ Unwrap(d.tag).terminator
             THEN [vec |-> rest, parent |-> parent]
             ELSE IF IsTag(d)
             THEN Let(search_terminator(rest, Unwrap(d.tag)), LAMBDA t :
                      IF IsNone(t) THEN create_dom_tree_any_tag(rest, add_child(parent, d))
                      ELSE IF Unwrap(t) = 0
                      THEN create_dom_tree_any_tag(Tail(rest), add_child(parent, d))
                      ELSE Let(create_dom_tree_any_tag(rest, d), LAMBDA r :
                               create_dom_tree_any_tag(r.vec, add_child(parent, r.parent))))
             ELSE create_dom_tree_any_tag(rest, add_child(parent, d))))

\* create_dom_tree(dom_vec, parent): both arguments are &mut, so the operator
\* returns what is left of dom_vec and the parent with its new children.
RECURSIVE create_dom_tree(_, _)
create_dom_tree(vec, parent) ==
    IF vec = << >> THEN [vec |-> vec, parent |-> parent]
    ELSE Let(Head(vec), LAMBDA d :
         Let(Tail(vec), LAMBDA rest :
             IF IsTag(d) /\ Unwrap(d.tag).terminator
             THEN [vec |-> rest, parent |-> parent]
             ELSE IF IsTag(d) /\ ~Unwrap(d.tag).terminated
             THEN Let(search_terminator(rest, Unwrap(d.tag)), LAMBDA t :
                      IF IsNone(t) THEN create_dom_tree(rest, add_child(parent, d))
                      ELSE IF Unwrap(t) = 0
                      THEN create_dom_tree(Tail(rest), add_child(parent, d))
                      ELSE Let(create_dom_tree(rest, d), LAMBDA r :
                               create_dom_tree(r.vec, add_child(parent, r.parent))))
             ELSE create_dom_tree(rest, add_child(parent, d))))

(***************************************************************************)
(* parse(doc) as a process: Input::new, the first loop of create_dom_vec   *)
(* (one action per turn), its main loop (one action per turn), then        *)
(* create_dom_tree.  pc is "new", "seek", "loop" and at the end "done"     *)
(* (Ok(root_dom)), "err" (Err(err)) or "panic" (an index out of range).    *)
(***************************************************************************)
\* parse, line 105: Input::new(doc)
New ==
    /\ pc = "new"
    /\ \E r \in {InputNew(doc)} :
       IF r.ok
       THEN /\ input' = r.input
            /\ cursor' = 0
            /\ pc' = "seek"
            /\ err' = err
       ELSE /\ pc' = "err"
            /\ err' = Some(r.err)
            /\ UNCHANGED <<input, cursor>>
    /\ UNCHANGED <<doc, dom_vec, root_dom>>
    /\ UNCHANGED <<tagVars, queryVars>>

\* create_dom_vec, lines 410-412: one evaluation of `while !input.expect('<')`
\* and, when it holds, one input.next_char().  expect indexes input[cursor],
\* which panics on an empty buffer.
Seek ==
    /\ pc = "seek"
    /\ IF Len(input) = 0
       THEN pc' = "panic" /\ cursor' = cursor
       ELSE IF ~expect(input, cursor, "<")
            THEN pc' = pc /\ cursor' = next_char(input, cursor)
            ELSE pc' = "loop" /\ cursor' = cursor
    /\ UNCHANGED <<doc, input, dom_vec, root_dom, err>>
    /\ UNCHANGED <<tagVars, queryVars>>

\* create_dom_vec, lines 422-469: one turn of `while !input.is_end()`
Turn ==
    /\ pc = "loop"
    /\ ~is_end(input, cursor)
    /\ \E r \in {LoopTurn(input, cursor, dom_vec)} :
       IF r.ok
       THEN /\ cursor' = r.cursor
            /\ dom_vec' = r.val
            /\ UNCHANGED <<pc, err>>
       ELSE /\ cursor' = r.cursor
            /\ pc' = "err"
            /\ err' = Some(r.err)
            /\ dom_vec' = dom_vec
    /\ UNCHANGED <<doc, input, root_dom>>
    /\ UNCHANGED <<tagVars, queryVars>>

\* create_dom_vec returns at is_end; parse, lines 109-111
Reduce ==
    /\ pc = "loop"
    /\ is_end(input, cursor)
    /\ root_dom' = Some(create_dom_tree(dom_vec, new_root).parent)
    /\ pc' = "done"
    /\ UNCHANGED <<doc, input, cursor, dom_vec, err>>
    /\ UNCHANGED <<tagVars, queryVars>>

ParseNext == New \/ Seek \/ Turn \/ Reduce

(***************************************************************************)
(* Document texts: up to n fragments of a set F, written one after another *)
(***************************************************************************)
RECURSIVE Flatten(_)
Flatten(ss) == IF ss = << >> THEN << >> ELSE Head(ss) \o Flatten(Tail(ss))

Texts(F, n) == {Flatten(ss) : ss \in UNION {[1 .. k -> F] : k \in 0 .. n}}

Frags ==
    { <<"<", "a", ">">>,
      <<"<", "/", "a", ">">>,
      <<"<", "b", " ", "/", ">">>,
      <<"x", "y">>,
      <<" ">>,
      <<"<">> \o ScriptName \o <<">">>,
      ScriptEnd \o <<">">>,
      <<"<">> \o ScriptName \o <<" ", "/", ">">>,
      <<"<">> }

TagIdle == TagNew(<< >>)
DomIdle == DomNew("Text")

ParseInit(D) ==
    /\ pc = "new"
    /\ doc \in D
    /\ input = << >>
    /\ cursor = 0
    /\ dom_vec = << >>
    /\ root_dom = None
    /\ err = None
    /\ p = TagIdle /\ q = TagIdle /\ sat = None
    /\ dom = DomIdle /\ needle = DomIdle /\ out = None

Init == ParseInit(Texts(Frags, MaxFrags))

Next == ParseNext

Spec == Init /\ [][Next]_vars

\* parse runs on: a turn that can change the state is eventually taken
FairSpec == Init /\ [][Next]_vars /\ WF_vars(Next)

\* C6: parse terminates for every input: whatever the text, with or without
\* a '<' in it, the call comes to an end (a tree, an error, or at least a
\* panic) after finitely many cursor steps.
C6_ParseTerminates == <>(pc \in {"done", "err", "panic"})

(***************************************************************************)
(* satisfy_sufficient_condition(p, q) as a call on two Tags.               *)
(***************************************************************************)
TagNames == {<<"a">>, <<"b">>}
AttrKeys == {<<"k">>, <<"i">>}
AttrValues == {<< >>, <<"v">>, <<"w">>}

AttrMaps == UNION {[K -> AttrValues] : K \in SUBSET AttrKeys}

\* every Tag the API can build from these names, keys and values: the mapping
\* absent (Tag::new), present but empty (set_attrs of an empty map) or filled
Tags ==
    {[name |-> n, attrs |-> a, terminated |-> td, terminator |-> tr] :
        n \in TagNames, a \in {None} \cup {Some(m) : m \in AttrMaps},
        td \in BOOLEAN, tr \in BOOLEAN}

TagInit ==
    /\ pc = "tag"
    /\ p \in Tags
    /\ q \in Tags
    /\ sat = None
    /\ doc = << >> /\ input = << >> /\ cursor = 0 /\ dom_vec = << >>
    /\ root_dom = None /\ err = None
    /\ dom = DomIdle /\ needle = DomIdle /\ out = None

Satisfy ==
    /\ pc = "tag"
    /\ sat' = Some(satisfy_sufficient_condition(p, q))
    /\ pc' = "tag_done"
    /\ UNCHANGED <<p, q>>
    /\ UNCHANGED <<parseVars, queryVars>>

TagNext == Satisfy

TagSpec == TagInit /\ [][TagNext]_vars

\* The attribute entries of a Tag: none when the mapping is absent.
Entries(tag) == IF IsSome(tag.attrs) THEN Unwrap(tag.attrs) ELSE EmptyMap

\* C1: satisfy_sufficient_condition(P, Q) is true if and only if the names are
\* equal and every key of P's mapping is a key of Q's mapping whose P-value is
\* the empty string or equal to Q's value; a P with no entries (mapping absent
\* or present but empty) matches every same-named Q, with or without mapping.
C1_SatisfyIffEntriesCovered ==
    pc = "tag_done" =>
        (Unwrap(sat) <=>
            /\ p.name = q.name
            /\ \A k \in DOMAIN Entries(p) :
                  /\ k \in DOMAIN Entries(q)
                  /\ (Entries(p)[k] = << >> \/ Entries(p)[k] = Entries(q)[k]))

(***************************************************************************)
(* searcher.rs                                                             *)
(***************************************************************************)
\* A plausible slip of search_tag_exe: the children of a matching tag are
\* not visited.
RECURSIVE search_tag_no_descent(_, _, _)
search_tag_no_descent(res, d, nd) ==
    IF IsNone(d.tag) THEN res
    ELSE IF satisfy_sufficient_condition(nd, Unwrap(d.tag))
         THEN Append(res, Unwrap(d.tag))
         ELSE LET F[i \in 0 .. Len(Kids(d))] ==
                      IF i = 0 THEN res
                      ELSE search_tag_no_descent(F[i - 1], Kids(d)[i], nd)
              IN  F[Len(Kids(d))]

\* search_tag_exe(res, dom, needle); the result is res after the call
RECURSIVE search_tag_exe(_, _, _)
search_tag_exe(res, d, nd) ==
    IF IsNone(d.tag) THEN res
    ELSE LET r1 == IF satisfy_sufficient_condition(nd, Unwrap(d.tag))
                   THEN Append(res, Unwrap(d.tag)) ELSE res
             F[i \in 0 .. Len(Kids(d))] ==
                 IF i = 0 THEN r1 ELSE search_tag_exe(F[i - 1], Kids(d)[i], nd)
         IN  F[Len(Kids(d))]

\* search_tag
search_tag(d, nd) ==
    LET res == search_tag_exe(<< >>, d, nd) IN
    IF res = << >> THEN None ELSE Some(res)

\* A plausible slip of the text collection: the texts below the children
\* are collected too.
RECURSIVE TextsOfDescendants(_, _)
TextsOfDescendants(res, d) ==
    LET F[i \in 0 .. Len(Kids(d))] ==
            IF i = 0 THEN res
            ELSE IF IsSome(Kids(d)[i].text)
                 THEN Append(F[i - 1], Unwrap(Kids(d)[i].text).text)
                 ELSE TextsOfDescendants(F[i - 1], Kids(d)[i])
    IN  F[Len(Kids(d))]

\* search_text_from_tag_children_exe, lines 166-172: the Text children of dom
TextsOfChildren(res, d) ==
    LET F[i \in 0 .. Len(Kids(d))] ==
            IF i = 0 THEN res
            ELSE IF IsSome(Kids(d)[i].text)
                 THEN Append(F[i - 1], Unwrap(Kids(d)[i].text).text)
                 ELSE F[i - 1]
    IN  F[Len(Kids(d))]

\* search_text_from_tag_children_exe(res, dom, needle); the result is res
RECURSIVE search_text_from_tag_children_exe(_, _, _)
search_text_from_tag_children_exe(res, d, nd) ==
    IF IsNone(d.tag) THEN res
    ELSE LET r1 == IF satisfy_sufficient_condition(nd, Unwrap(d.tag))
                   THEN TextsOfChildren(res, d) ELSE res
             F[i \in 0 .. Len(Kids(d))] ==
                 IF i = 0 THEN r1
                 ELSE search_text_from_tag_children_exe(F[i - 1], Kids(d)[i], nd)
         IN  F[Len(Kids(d))]

\* search_text_from_tag_children
search_text_from_tag_children(d, nd) ==
    LET res == search_text_from_tag_children_exe(<< >>, d, nd) IN
    IF res = << >> THEN None ELSE Some(res)

\* search_dom_exe, lines 294-323: "Comparison of Dom structures"
DomMatch(d, nd) ==
    /\ d.dom_type = nd.dom_type
    /\ IF d.dom_type = "Tag"
       THEN /\ IsSome(d.tag) /\ IsSome(nd.tag)
            /\ satisfy_sufficient_condition(Unwrap(nd.tag), Unwrap(d.tag))
       ELSE IF d.dom_type = "Text"
       THEN /\ IsSome(d.text) /\ IsSome(nd.text)
            /\ Unwrap(d.text).text = Unwrap(nd.text).text
       ELSE /\ IsSome(d.comment) /\ IsSome(nd.comment)
            /\ Unwrap(d.comment).comment = Unwrap(nd.comment).comment

\* search_dom_exe(res, dom, needle, parent_match): res is &mut, so the
\* operator returns res after the call beside the returned bool.
RECURSIVE search_dom_exe(_, _, _, _)
search_dom_exe(res, d, nd, parent_match) ==
    LET dom_match == DomMatch(d, nd)
        dcs == Kids(d)
        ncs == Kids(nd)
    IN
    IF dom_match
    THEN IF IsNone(nd.children) /\ ~parent_match
         THEN [res |-> add_child(res, d), ret |-> TRUE]
         ELSE IF IsSome(d.children) /\ IsSome(nd.children) /\ Len(dcs) < Len(ncs)
         THEN [res |-> res, ret |-> FALSE]
         ELSE
           \* lines 343-355: the pairs (dom_child, needle_child), dom_child
           \* outermost; turn k is pair number k
           LET n == IF IsSome(d.children) /\ IsSome(nd.children)
                    THEN Len(dcs) * Len(ncs) ELSE 0
               G[k \in 0 .. n] ==
                   IF k = 0 THEN [res |-> res, cnt |-> 0]
                   ELSE LET dc == dcs[((k - 1) \div Len(ncs)) + 1]
                            nc == ncs[((k - 1) % Len(ncs)) + 1]
                            r == search_dom_exe(G[k - 1].res, dc, nc, dom_match)
                        IN  [res |-> r.res,
                             cnt |-> IF r.ret THEN G[k - 1].cnt + 1 ELSE G[k - 1].cnt]
               after == G[n]
           IN  IF IsSome(nd.children) /\ after.cnt < Len(ncs)
               THEN [res |-> after.res, ret |-> FALSE]
               ELSE IF ~parent_match
               THEN [res |-> add_child(after.res, d), ret |-> TRUE]
               ELSE [res |-> after.res, ret |-> TRUE]
    ELSE LET F[i \in 0 .. Len(dcs)] ==
                 IF i = 0 THEN res
                 ELSE search_dom_exe(F[i - 1], dcs[i], nd, dom_match).res
         IN  [res |-> F[Len(dcs)], ret |-> FALSE]

\* A plausible slip of search_dom: the root is returned also when it has no
\* children.
search_dom_always_some(d, nd) == Some(search_dom_exe(new_root, d, nd, FALSE).res)

\* search_dom
search_dom(d, nd) ==
    LET res == search_dom_exe(new_root, d, nd, FALSE).res IN
    IF IsSome(res.children) THEN Some(res) ELSE None

(***************************************************************************)
(* The query process: one query of searcher.rs run on a document tree.     *)
(* The trees are the ones Dom's constructors can build (dom/mod.rs); tags  *)
(* and texts are those of the documented examples.                         *)
(***************************************************************************)
Ul == <<"u", "l">>
Li == <<"l", "i">>
Ol == <<"o", "l">>
DivName == <<"d", "i", "v">>
Body == <<"b", "o", "d", "y">>
Span == <<"s", "p", "a", "n">>
Class == <<"c", "l", "a", "s", "s">>
Id == <<"i", "d">>
TargetList == <<"t", "a", "r", "g", "e", "t", "L", "i", "s", "t">>
Key1 == <<"k", "e", "y", "1">>
Key2 == <<"k", "e", "y", "2">>
Target == <<"t", "a", "r", "g", "e", "t">>

\* Dom::new(DomType::Tag) + set_tag + add_child for each child
TagDom(name, attrs, kids) ==
    LET F[i \in 0 .. Len(kids)] ==
            IF i = 0 THEN set_tag(DomNew("Tag"), [TagNew(name) EXCEPT !.attrs = attrs])
            ELSE add_child(F[i - 1], kids[i])
    IN  F[Len(kids)]

\* Dom::new(DomType::Text) + set_text
TextDom(s) == set_text(DomNew("Text"), s)

\* Dom::new_root + add_child for each child
RootDom(kids) ==
    LET F[i \in 0 .. Len(kids)] ==
            IF i = 0 THEN new_root ELSE add_child(F[i - 1], kids[i])
    IN  F[Len(kids)]

\* The tree of the search_dom example (dom/mod.rs, doc of Dom::search)
List1 ==
    TagDom(Ul, Some((Id :> <<"l", "i", "s", "t", "1">>) @@ (Class :> TargetList)),
           <<TagDom(Li, Some(Class :> Key1), <<TextDom(<<"1", "-", "1">>)>>),
             TagDom(Li, Some(Class :> Key2),
                    <<TagDom(Span, None, <<TextDom(<<"1", "-", "2">>)>>)>>)>>)
List2 ==
    TagDom(Ul, Some(Id :> <<"l", "i", "s", "t", "2">>),
           <<TagDom(Li, Some(Class :> Key1), <<TextDom(<<"2", "-", "1">>)>>),
             TagDom(Li, None, <<TextDom(<<"2", "-", "2">>)>>)>>)
List3 ==
    TagDom(Ul, Some((Id :> <<"l", "i", "s", "t", "3">>) @@ (Class :> TargetList)),
           <<TagDom(Li, Some(Class :> Key1), <<TextDom(<<"3", "-", "1">>)>>),
             TagDom(Li, Some(Class :> <<"i", "t", "e", "m">>), <<TextDom(<<"3", "-", "2">>)>>),
             TagDom(Li, Some(Class :> Key2), <<TextDom(<<"3", "-", "3">>)>>)>>)
List4 ==
    TagDom(Ul, Some(Id :> <<"l", "i", "s", "t", "4">>),
           <<TagDom(Li, Some(Class :> Key1), <<TextDom(<<"4", "-", "1">>)>>),
             TagDom(Li, Some(Class :> Key2), <<TextDom(<<"4", "-", "2">>)>>)>>)
ListsDoc ==
    RootDom(<<TagDom(Body, None,
        <<List1, List2,
          TagDom(DivName, None,
                 <<TagDom(DivName, None,
                          <<TagDom(Ul, Some(Class :> TargetList), <<List3>>)>>)>>),
          List4>>)>>)

\* The tree of the search_tag example (searcher.rs, doc of search_tag)
LiFirst == TagDom(Li, Some(Class :> Target), <<TextDom(<<"f", "i", "r", "s", "t">>)>>)
LiSecond == TagDom(Li, None, <<TextDom(<<"s", "e", "c", "o", "n", "d">>)>>)
LiThird ==
    TagDom(Li, Some((Id :> <<"t", "h", "i", "r", "d">>) @@ (Class :> Target)), <<TextDom(<<"t", "h", "e", "r", "d">>)>>)
OlDoc == RootDom(<<TagDom(Ol, None, <<LiFirst, LiSecond, LiThird>>)>>)

\* The tags of the generated documents
UlTarget == [TagNew(Ul) EXCEPT !.attrs = Some(Class :> TargetList)]
LiKey1 == [TagNew(Li) EXCEPT !.attrs = Some(Class :> Key1)]
LiKey2 == [TagNew(Li) EXCEPT !.attrs = Some(Class :> Key2)]
LiPlain == TagNew(Li)
LiTarget == [TagNew(Li) EXCEPT !.attrs = Some(Class :> Target)]
DocTags == {UlTarget, LiKey1, LiKey2, LiPlain}
DocTexts == {<<"x">>}

\* The trees of exactly n nodes and the child lists of n nodes in all, built
\* with Dom::new, set_tag / set_text and add_child; a Text has no children.
RECURSIVE TreesOf(_), ForestsOf(_)
TreesOf(n) ==
    {TagDom(t.name, t.attrs, f) : t \in DocTags, f \in ForestsOf(n - 1)}
        \cup (IF n = 1 THEN {TextDom(x) : x \in DocTexts} ELSE {})
ForestsOf(n) ==
    IF n = 0 THEN {<< >>}
    ELSE UNION {{<<t>> \o f : t \in TreesOf(k), f \in ForestsOf(n - k)} : k \in 1 .. n}

\* A list whose second item holds a list item of its own
NestedDoc ==
    RootDom(<<TagDom(Ul, Some(Class :> TargetList),
                     <<TagDom(Li, Some(Class :> Key1), <<TextDom(<<"1", "-", "1">>)>>),
                       TagDom(Li, None,
                              <<TagDom(Li, Some(Class :> Key1),
                                       <<TextDom(<<"2", "-", "1">>)>>)>>)>>)>>)

SearchDocs ==
    {RootDom(f) : f \in UNION {ForestsOf(n) : n \in 0 .. MaxNodes}}
        \cup {ListsDoc, OlDoc, NestedDoc}

\* The patterns: the two of the examples, leaves, a wildcard, a one-child
\* pattern and a Text
UlNeedle ==
    TagDom(Ul, Some(Class :> TargetList),
           <<TagDom(Li, Some(Class :> Key1), << >>),
             TagDom(Li, Some(Class :> Key2), << >>)>>)
Needles ==
    {UlNeedle,
     TagDom(Ul, Some(Class :> TargetList), <<TagDom(Li, Some(Class :> Key1), << >>)>>),
     TagDom(Li, Some(Class :> Key1), << >>),
     TagDom(Li, Some(Class :> << >>), << >>),
     TagDom(Li, None, << >>),
     TagDom(Li, Some(Class :> Target), << >>),
     TextDom(<<"x">>)}

SearchInit ==
    /\ pc = "search"
    /\ dom \in SearchDocs
    /\ needle \in Needles
    /\ out = None
    /\ doc = << >> /\ input = << >> /\ cursor = 0
    /\ dom_vec = << >> /\ root_dom = None /\ err = None
    /\ p = TagIdle /\ q = TagIdle /\ sat = None

\* parsercher::search_tag(&dom, &needle)
SearchTag ==
    /\ pc = "search"
    /\ IsSome(needle.tag)
    /\ out' = search_tag(dom, Unwrap(needle.tag))
    /\ pc' = "search_tag"
    /\ UNCHANGED <<dom, needle, parseVars, tagVars>>

\* parsercher::search_text_from_tag_children(&dom, &needle)
SearchText ==
    /\ pc = "search"
    /\ IsSome(needle.tag)
    /\ out' = search_text_from_tag_children(dom, Unwrap(needle.tag))
    /\ pc' = "search_text"
    /\ UNCHANGED <<dom, needle, parseVars, tagVars>>

\* parsercher::search_dom(&dom, &needle)
SearchDom ==
    /\ pc = "search"
    /\ out' = search_dom(dom, needle)
    /\ pc' = "search_dom"
    /\ UNCHANGED <<dom, needle, parseVars, tagVars>>

SearchNext == SearchTag \/ SearchText \/ SearchDom

SearchSpec == SearchInit /\ [][SearchNext]_vars

(***************************************************************************)
(* Properties of the queries                                               *)
(***************************************************************************)
\* The nodes of a tree, a node before its children, children left to right
RECURSIVE PreOrder(_)
PreOrder(d) ==
    LET F[i \in 0 .. Len(Kids(d))] ==
            IF i = 0 THEN <<d>> ELSE F[i - 1] \o PreOrder(Kids(d)[i])
    IN  F[Len(Kids(d))]

Range(f) == {f[i] : i \in DOMAIN f}

\* s occurs in t
Contains(s, t) ==
    \E i \in 0 .. Len(t) - Len(s) : SubSeq(t, i + 1, i + Len(s)) = s

\* P => C on single nodes, as the specification defines it
NodeSatisfies(P, C) ==
    /\ P.dom_type = C.dom_type
    /\ IF P.dom_type = "Tag"
       THEN /\ IsSome(P.tag) /\ IsSome(C.tag)
            /\ satisfy_sufficient_condition(Unwrap(P.tag), Unwrap(C.tag))
       ELSE IF P.dom_type = "Text"
       THEN /\ IsSome(P.text) /\ IsSome(C.text)
            /\ Contains(Unwrap(P.text).text, Unwrap(C.text).text)
       ELSE /\ IsSome(P.comment) /\ IsSome(C.comment)
            /\ Contains(Unwrap(P.comment).comment, Unwrap(C.comment).comment)

\* C satisfies the root of P and each child of P has a counterpart among
\* the children of C, by the same relation
RECURSIVE Covers(_, _)
Covers(P, C) ==
    /\ NodeSatisfies(P, C)
    /\ \A i \in 1 .. Len(Kids(P)) :
          \E j \in 1 .. Len(Kids(C)) : Covers(Kids(P)[i], Kids(C)[j])

\* The nodes of a tree, each with its strict ancestors
RECURSIVE Located(_, _)
Located(d, anc) ==
    LET F[i \in 0 .. Len(Kids(d))] ==
            IF i = 0 THEN <<[node |-> d, anc |-> anc]>>
            ELSE F[i - 1] \o Located(Kids(d)[i], Append(anc, d))
    IN  F[Len(Kids(d))]

\* The subtrees a structural search reported
Reported == IF IsSome(out) THEN Kids(Unwrap(out)) ELSE << >>

\* C2: search_dom with a pattern that has children reports every document
\* node that satisfies the pattern root and whose children cover the
\* pattern's children, unless a strict ancestor of it is reported, also
\* below a node that satisfies the root but not the children; on the
\* documented lists the result is list1 then list3.
C2_SearchDomReportsEveryMatch ==
    (pc = "search_dom" /\ IsSome(needle.children)) =>
        /\ \A e \in Range(Located(dom, << >>)) :
              (/\ Covers(needle, e.node)
               /\ \A a \in Range(e.anc) : a \notin Range(Reported))
                  => e.node \in Range(Reported)
        /\ (dom = ListsDoc /\ needle = UlNeedle) => Reported = <<List1, List3>>

\* C3: every subtree search_dom reports is a copy of a document node that
\* satisfies the pattern root and whose children cover every child of the
\* pattern.
C3_SearchDomReportsOnlyMatches ==
    pc = "search_dom" =>
        \A r \in Range(Reported) :
            /\ r \in Range(PreOrder(dom))
            /\ Covers(needle, r)

\* The tags of the tree that satisfy the pattern, in pre-order
TagsSatisfying(d, pt) ==
    LET hit(n) == IsSome(n.tag) /\ satisfy_sufficient_condition(pt, Unwrap(n.tag))
        sel == SelectSeq(PreOrder(d), hit)
    IN  [i \in 1 .. Len(sel) |-> Unwrap(sel[i].tag)]

\* C4: search_tag returns, in pre-order, exactly the tags of the tree that
\* satisfy the pattern, and no result exactly when there is none; on the
\* documented ol it yields the first and the third li.
C4_SearchTagPreOrder ==
    pc = "search_tag" =>
        /\ out = (IF TagsSatisfying(dom, Unwrap(needle.tag)) = << >> THEN None
                  ELSE Some(TagsSatisfying(dom, Unwrap(needle.tag))))
        /\ (dom = OlDoc /\ needle.tag = Some(LiTarget))
              => out = Some(<<Unwrap(LiFirst.tag), Unwrap(LiThird.tag)>>)

\* search_tag found a tag nested in another tag it found
C4_Witness ==
    /\ pc = "search_tag"
    /\ IsSome(out)
    /\ \E e \in Range(Located(dom, << >>)) :
          /\ IsSome(e.node.tag)
          /\ satisfy_sufficient_condition(Unwrap(needle.tag), Unwrap(e.node.tag))
          /\ \E a \in Range(e.anc) :
                satisfy_sufficient_condition(Unwrap(needle.tag), Unwrap(a.tag))

\* The strings of the direct Text children of a node, in child order
DirectTexts(n) ==
    LET isText(k) == k.dom_type = "Text"
        sel == SelectSeq(Kids(n), isText)
    IN  [i \in 1 .. Len(sel) |-> Unwrap(sel[i].text).text]

\* The direct texts of the tags that satisfy the pattern, in pre-order
TextsSatisfying(d, pt) ==
    LET nodes == PreOrder(d)
        G[i \in 0 .. Len(nodes)] ==
            IF i = 0 THEN << >>
            ELSE IF /\ IsSome(nodes[i].tag)
                    /\ satisfy_sufficient_condition(pt, Unwrap(nodes[i].tag))
                 THEN G[i - 1] \o DirectTexts(nodes[i])
                 ELSE G[i - 1]
    IN  G[Len(nodes)]

\* C5: search_text_from_tag_children returns the strings of the direct Text
\* children of every tag that satisfies the pattern, tags in pre-order and
\* texts in child order, and no result exactly when that list is empty.
C5_SearchTextDirectChildren ==
    pc = "search_text" =>
        out = (IF TextsSatisfying(dom, Unwrap(needle.tag)) = << >> THEN None
               ELSE Some(TextsSatisfying(dom, Unwrap(needle.tag))))

\* the texts of two satisfying tags were collected and a deeper text of the
\* same tree was not
C5_Witness ==
    /\ pc = "search_text"
    /\ dom = OlDoc
    /\ out = Some(<<<<"f", "i", "r", "s", "t">>, <<"t", "h", "e", "r", "d">>>>)

(***************************************************************************)
(* Properties of parse                                                     *)
(***************************************************************************)
IsPrefix(s, t) == Len(s) <= Len(t) /\ SubSeq(t, 1, Len(s)) = s

IsCloser(d) == IsTag(d) /\ Unwrap(d.tag).terminator

\* The fragments that are not closing markers, in the order of the text
Declared(vec) ==
    LET keep(d) == ~IsCloser(d) IN SelectSeq(vec, keep)

\* The nodes below the root, a node before its children and children left
\* to right, each without its children: what a fragment is
Heads(root) ==
    LET nodes == PreOrder(root) IN
    [i \in 1 .. Len(nodes) - 1 |-> [nodes[i + 1] EXCEPT !.children = None]]

\* Every opening tag that is closed later is closed in nesting order, and
\* every closing marker closes the innermost such tag.
RECURSIVE Nested(_, _)
Nested(vec, open) ==
    IF vec = << >> THEN open = << >>
    ELSE LET d == Head(vec) IN
         IF IsCloser(d)
         THEN /\ open # << >>
              /\ open[Len(open)] = Unwrap(d.tag).name
              /\ Nested(Tail(vec), SubSeq(open, 1, Len(open) - 1))
         ELSE IF /\ IsTag(d) /\ ~Unwrap(d.tag).terminated
                 /\ \E i \in 2 .. Len(vec) :
                       IsCloser(vec[i]) /\ Unwrap(vec[i].tag).name = Unwrap(d.tag).name
              THEN Nested(Tail(vec), Append(open, Unwrap(d.tag).name))
              ELSE Nested(Tail(vec), open)

WellFormed == Nested(dom_vec, << >>)

\* C7: the fragments are declared in the order of the text (a turn of the
\* segmenter moves the cursor forward and appends to dom_vec), and for a
\* well-formed text the nodes of the tree, read a node before its children
\* and the children of every node left to right, the root's included, are
\* the declared fragments in their order; for any text they are the first
\* of them.
C7_ChildrenInDeclarationOrder ==
    /\ [][cursor <= cursor' /\ IsPrefix(dom_vec, dom_vec')]_vars
    /\ [](pc = "done" =>
             /\ IsPrefix(Heads(Unwrap(root_dom)), Declared(dom_vec))
             /\ WellFormed => Heads(Unwrap(root_dom)) = Declared(dom_vec))

\* a well-formed text was parsed to a tree in which a tag below the root has
\* two different children
C7_Witness ==
    /\ pc = "done"
    /\ WellFormed
    /\ \E n \in Range(PreOrder(Unwrap(root_dom))) :
          /\ n # Unwrap(root_dom)
          /\ Len(Kids(n)) >= 2
          /\ Kids(n)[1] # Kids(n)[2]

\* the first index from i on (0-based) where nd stands in inp, or Len(inp)
FirstAt(inp, nd, i) ==
    LET hits == {k \in i .. Len(inp) - Len(nd) : SubSeq(inp, k + 1, k + Len(nd)) = nd}
    IN  IF hits = {} THEN Len(inp)
        ELSE CHOOSE k \in hits : \A m \in hits : k <= m

\* An opening tag named script stands at the cursor
ScriptOpens(inp, cur) ==
    /\ cur + 7 < Len(inp)
    /\ SubSeq(inp, cur + 1, cur + 7) = <<"<">> \o ScriptName
    /\ At(inp, cur + 7) \in {">", " "}

\* The segmenter's part of C8, on one turn: an opening script tag stands at
\* the cursor, the character after its '>' is not '<' and a "</script"
\* follows; then the turn appends the tag and one Text holding every
\* character up to that "</script", and leaves the cursor on it.
ScriptTextVerbatim ==
    (/\ pc = "loop" /\ ~is_end(input, cursor)
     /\ ScriptOpens(input, cursor)
     /\ LET after == FirstAt(input, <<">">>, cursor) + 1 IN
        /\ after < Len(input)
        /\ At(input, after) # "<"
        /\ FirstAt(input, ScriptEnd, after) < Len(input))
    => LET after == FirstAt(input, <<">">>, cursor) + 1
           close == FirstAt(input, ScriptEnd, after)
       IN  /\ Len(dom_vec') = Len(dom_vec) + 2
           /\ SubSeq(dom_vec', 1, Len(dom_vec)) = dom_vec
           /\ IsTag(dom_vec'[Len(dom_vec) + 1])
           /\ Unwrap(dom_vec'[Len(dom_vec) + 1].tag).name = ScriptName
           /\ dom_vec'[Len(dom_vec) + 2] = TextDom(SubSeq(input, after + 1, close))
           /\ cursor' = close

\* fragment i is an opening script tag and fragment i + 1 the Text captured
\* after it (a Text never follows a script tag by the ordinary text rule:
\* that rule is reached only when '<' stands after the tag)
ScriptWithText(i) ==
    /\ i + 1 <= Len(dom_vec)
    /\ IsTag(dom_vec[i])
    /\ Unwrap(dom_vec[i].tag).name = ScriptName
    /\ ~Unwrap(dom_vec[i].tag).terminator
    /\ dom_vec[i + 1].dom_type = "Text"

\* the place of fragment i among the declared fragments
DeclaredIndex(i) == Len(Declared(SubSeq(dom_vec, 1, i)))

\* fragment i is in the tree, and there fragment i + 1 is its only child
OnlyChild(i) ==
    LET nodes == PreOrder(Unwrap(root_dom)) IN
    DeclaredIndex(i) + 1 <= Len(nodes) =>
        Kids(nodes[DeclaredIndex(i) + 1]) = <<dom_vec[i + 1]>>

\* the script tag of fragment i is not self-closed and the fragment after
\* its Text is a closing marker named script
ClosedByScript(i) ==
    /\ ~Unwrap(dom_vec[i].tag).terminated
    /\ i + 2 <= Len(dom_vec)
    /\ IsCloser(dom_vec[i + 2])
    /\ Unwrap(dom_vec[i + 2].tag).name = ScriptName

\* C8 as stated: the text after an opening script tag is captured verbatim
\* up to the next "</script" as one Text fragment, and in the tree that Text
\* is the only child of the script tag.
C8_ScriptTextOnlyChild ==
    /\ [][ScriptTextVerbatim]_vars
    /\ [](pc = "done" =>
             \A i \in 1 .. Len(dom_vec) : ScriptWithText(i) => OnlyChild(i))

\* C8, amended: the text after an opening script tag is captured verbatim
\* up to the next "</script" as one Text fragment, and in the tree that Text
\* is the only child of the script tag when the tag is not self-closed and
\* the closing marker that follows the text is named script.
C8_ScriptTextOnlyChildWhenClosed ==
    /\ [][ScriptTextVerbatim]_vars
    /\ [](pc = "done" =>
             \A i \in 1 .. Len(dom_vec) :
                 (ScriptWithText(i) /\ ClosedByScript(i)) => OnlyChild(i))

\* a script text with a leading space and a tag written in it is the only
\* child of its script tag
C8_Witness ==
    /\ pc = "done"
    /\ \E i \in 1 .. Len(dom_vec) :
          /\ ScriptWithText(i) /\ ClosedByScript(i)
          /\ dom_vec[i + 1] = TextDom(<<" ", "<", "a", ">">>)
          /\ DeclaredIndex(i) + 1 <= Len(PreOrder(Unwrap(root_dom)))
          /\ OnlyChild(i)

\* a '<' that opens a tag, not a comment, stands in the text with no '>'
\* anywhere after it
UnterminatedTag(text) ==
    \E i \in 1 .. Len(text) :
        /\ text[i] = "<"
        /\ ~(i + 3 <= Len(text) /\ SubSeq(text, i, i + 3) = <<"<", "!", "-", "-">>)
        /\ \A j \in i + 1 .. Len(text) : text[j] # ">"

\* C10: for a text with an opening '<' that no '>' follows, parse returns
\* the unterminated-tag error and never a tree.
C10_UnterminatedTagIsAnError ==
    (pc \in {"done", "err"} /\ UnterminatedTag(doc)) =>
        /\ pc = "err"
        /\ err = Some(ErrTag)
        /\ root_dom = None

(***************************************************************************)
(* parse on one tag written with attributes                                *)
(***************************************************************************)
\* The ways an attribute is written: a bare name, a double-quoted and a
\* single-quoted value
AttrPieces ==
    { [text |-> <<" ", "d">>, name |-> <<"d">>, value |-> << >>],
      [text |-> <<" ", "n", "=", "\"", "x", "\"">>, name |-> <<"n">>, value |-> <<"x">>],
      [text |-> <<" ", "e", "=", "'", "y", "'">>, name |-> <<"e">>, value |-> <<"y">>] }

AttrWritings == UNION {[1 .. k -> AttrPieces] : k \in 0 .. MaxAttrs}

AttrCloses == {<<">">>, <<" ", "/", ">">>}

\* the tag `<i ...>` or `<i ... />` with the attributes ps
AttrDoc(ps, close) ==
    <<"<", "i">> \o Flatten([k \in 1 .. Len(ps) |-> ps[k].text]) \o close

AttrDocs == {AttrDoc(ps, close) : ps \in AttrWritings, close \in AttrCloses}

AttrSpec == ParseInit(AttrDocs) /\ [][Next]_vars

\* the mapping the attributes ps are written for
Written(ps) ==
    [k \in {ps[i].name : i \in 1 .. Len(ps)} |->
        (CHOOSE a \in Range(ps) : a.name = k).value]

\* C9: a tag written with several attributes is parsed to a mapping with
\* exactly one entry per written name: a quoted value for a name written
\* with '=', the empty string for a name written alone, which takes no
\* later attribute's value.
C9_OneEntryPerWrittenName ==
    pc \in {"done", "err"} =>
        \A ps \in AttrWritings : \A close \in AttrCloses :
            doc = AttrDoc(ps, close) =>
                /\ pc = "done"
                /\ Len(dom_vec) = 1
                /\ Entries(Unwrap(dom_vec[1].tag)) = Written(ps)
                /\ Kids(Unwrap(root_dom)) = dom_vec

(***************************************************************************)
(* Texts with comments and quoted attribute values, for the error paths of *)
(* parse_comment and parse_tag_attr_value.                                 *)
(***************************************************************************)
CommentOpen == <<"<", "!", "-", "-">>
CommentClose == <<"-", "-", ">">>

ErrPieces ==
    { CommentOpen,
      CommentClose,
      <<"c">>,
      <<"<", "a", ">">>,
      <<"<", "i", " ", "e", "=">>,
      <<"\"">>,
      <<"'">>,
      <<">">> }

ErrSpec == ParseInit(Texts(ErrPieces, MaxPieces)) /\ [][Next]_vars

\* nd occurs in inp at some index >= i (0-based)
OccursFrom(inp, nd, i) ==
    \E k \in i .. Len(inp) - Len(nd) : SubSeq(inp, k + 1, k + Len(nd)) = nd

\* The main loop stands on a comment opener that has no `-->` after it.
AtUnterminatedComment ==
    /\ pc = "loop"
    /\ ~is_end(input, cursor)
    /\ expect_str(input, cursor, CommentOpen)
    /\ ~OccursFrom(input, CommentClose, cursor + 4)

\* j is the opening quote of the first quoted attribute value of the tag that
\* starts at cur and ends at tag_end: a quote right after an `=`, behind the
\* space that ends the tag name.
OpeningQuote(inp, cur, tag_end, j) ==
    /\ cur < j /\ j < tag_end
    /\ At(inp, j) \in {"\"", "'"}
    /\ At(inp, j - 1) = "="
    /\ \E s \in cur + 1 .. j - 2 : At(inp, s) = " "
    /\ \A k \in cur + 1 .. j - 1 :
          ~(At(inp, k) \in {"\"", "'"} /\ At(inp, k - 1) = "=")

\* The main loop stands on a tag whose first quoted attribute value has no
\* closing quote anywhere later in the input.
AtUnterminatedQuote ==
    /\ pc = "loop"
    /\ ~is_end(input, cursor)
    /\ expect(input, cursor, "<")
    /\ ~expect_str(input, cursor, CommentOpen)
    /\ IsSome(find(input, cursor, ">"))
    /\ \E j \in cursor + 1 .. Len(input) - 1 :
          /\ OpeningQuote(input, cursor, Unwrap(find(input, cursor, ">")), j)
          /\ \A k \in j + 1 .. Len(input) - 1 : At(input, k) # At(input, j)

\* C11: when the scan reaches a comment opener with no `-->` after it, or a
\* tag whose attribute value opens with a quote that is never closed, parse
\* ends with an error; a parse that ends with an error returns no tree, also
\* when fragments were parsed before the failure.
C11_UnterminatedIsAnErrorWithoutTree ==
    /\ [][(AtUnterminatedComment \/ AtUnterminatedQuote)
            => (pc' = "err" /\ IsSome(err') /\ root_dom' = None)]_vars
    /\ [](pc = "err" => root_dom = None /\ IsSome(err))
    /\ [](pc = "done" => IsNone(err))

\* Both failures after a fragment was parsed: `<a><!--c` and `<a><i e=">`
C11_Witness ==
    /\ pc = "err"
    /\ root_dom = None
    /\ dom_vec # << >>
    /\ \/ /\ err = Some(ErrComment)
          /\ doc = <<"<", "a", ">">> \o CommentOpen \o <<"c">>
       \/ /\ err = Some(ErrQuote)
          /\ doc = <<"<", "a", ">", "<", "i", " ", "e", "=", "\"", ">">>

(***************************************************************************)
(* dom/mod.rs: the sufficient-condition relation on Dom structures.        *)
(***************************************************************************)
\* Tag::p_implies_q(p, q), which Dom::p_implies_q calls (dom/mod.rs:172):
\* the names are equal and every attribute of p's mapping is an attribute of
\* q, p's value being the empty string or equal to q's value.
Tag_p_implies_q(pt, qt) ==
    /\ qt.name = pt.name
    /\ IsSome(pt.attrs) =>
          \A k \in DOMAIN Unwrap(pt.attrs) :
              /\ IsSome(qt.attrs)
              /\ k \in DOMAIN Unwrap(qt.attrs)
              /\ \/ Unwrap(pt.attrs)[k] = << >>
                 \/ Unwrap(pt.attrs)[k] = Unwrap(qt.attrs)[k]

\* str::contains, line 179 and line 188: pat occurs in s
StrContains(s, pat) ==
    \E i \in 0 .. Len(s) - Len(pat) : SubSeq(s, i + 1, i + Len(pat)) = pat

\* A plausible slip of Dom::p_implies_q: the contents compared for equality,
\* as search_dom_exe compares them.
p_equals_q(pd, qd) ==
    IF qd.dom_type # pd.dom_type THEN FALSE
    ELSE IF qd.dom_type = "Tag"
    THEN IsSome(qd.tag) /\ IsSome(pd.tag) /\ Tag_p_implies_q(Unwrap(pd.tag), Unwrap(qd.tag))
    ELSE IF qd.dom_type = "Text"
    THEN IsSome(qd.text) /\ IsSome(pd.text) /\ Unwrap(qd.text).text = Unwrap(pd.text).text
    ELSE /\ IsSome(qd.comment) /\ IsSome(pd.comment)
         /\ Unwrap(qd.comment).comment = Unwrap(pd.comment).comment

\* Dom::p_implies_q
p_implies_q(pd, qd) ==
    IF qd.dom_type # pd.dom_type THEN FALSE
    ELSE IF qd.dom_type = "Tag"
    THEN IsSome(qd.tag) /\ IsSome(pd.tag) /\ Tag_p_implies_q(Unwrap(pd.tag), Unwrap(qd.tag))
    ELSE IF qd.dom_type = "Text"
    THEN /\ IsSome(qd.text) /\ IsSome(pd.text)
         /\ StrContains(Unwrap(qd.text).text, Unwrap(pd.text).text)
    ELSE /\ IsSome(qd.comment) /\ IsSome(pd.comment)
         /\ StrContains(Unwrap(qd.comment).comment, Unwrap(pd.comment).comment)

\* A plausible slip of Dom::p_implies_q_tree: the children compared in
\* order, child i of p with child i of q.
RECURSIVE p_implies_q_tree_ordered(_, _)
p_implies_q_tree_ordered(pd, qd) ==
    IF ~p_implies_q(pd, qd) THEN FALSE
    ELSE IF IsNone(pd.children) THEN TRUE
    ELSE IF IsNone(qd.children) THEN FALSE
    ELSE /\ Len(Unwrap(pd.children)) <= Len(Unwrap(qd.children))
         /\ \A i \in 1 .. Len(Unwrap(pd.children)) :
               p_implies_q_tree_ordered(Unwrap(pd.children)[i], Unwrap(qd.children)[i])

\* Dom::p_implies_q_tree
RECURSIVE p_implies_q_tree(_, _)
p_implies_q_tree(pd, qd) ==
    IF ~p_implies_q(pd, qd) THEN FALSE
    ELSE IF IsNone(pd.children) THEN TRUE
    ELSE IF IsNone(qd.children) THEN FALSE
    ELSE \A i \in 1 .. Len(Unwrap(pd.children)) :
             \E j \in 1 .. Len(Unwrap(qd.children)) :
                 p_implies_q_tree(Unwrap(pd.children)[i], Unwrap(qd.children)[j])

(***************************************************************************)
(* The relation as a process: Dom::p_implies_q, Dom::p_implies_q_tree or   *)
(* search_dom applied to a pattern (needle) and a candidate (dom).  Single *)
(* nodes of every variant, and trees of a few nodes.                       *)
(***************************************************************************)
NameA == <<"a">>
KeyK == <<"k">>
ImpliesTags ==
    {TagNew(NameA),
     set_attrs(TagNew(NameA), EmptyMap),
     set_attr(TagNew(NameA), KeyK, << >>),
     set_attr(TagNew(NameA), KeyK, <<"v">>),
     TagNew(<<"b">>)}
ImpliesContents == {<< >>, <<"x">>, <<"y">>, <<"x", "y">>}

\* Dom::new(DomType::Comment) + set_comment
CommentDom(s) == set_comment(DomNew("Comment"), s)

ImpliesNodes ==
    {set_tag(DomNew("Tag"), t) : t \in ImpliesTags}
        \cup {TextDom(s) : s \in ImpliesContents}
        \cup {CommentDom(s) : s \in ImpliesContents}

\* The trees of exactly n nodes over two tags and one text
TreeTags == {TagNew(NameA), set_attr(TagNew(NameA), KeyK, <<"v">>)}
RECURSIVE ImpliesTreesOf(_), ImpliesForestsOf(_)
ImpliesTreesOf(n) ==
    {TagDom(t.name, t.attrs, f) : t \in TreeTags, f \in ImpliesForestsOf(n - 1)}
        \cup (IF n = 1 THEN {TextDom(<<"x">>)} ELSE {})
ImpliesForestsOf(n) ==
    IF n = 0 THEN {<< >>}
    ELSE UNION {{<<t>> \o f : t \in ImpliesTreesOf(k), f \in ImpliesForestsOf(n - k)} :
                   k \in 1 .. n}

ImpliesTrees == UNION {ImpliesTreesOf(n) : n \in 1 .. MaxTreeNodes}

ImpliesInit ==
    /\ pc = "search"
    /\ \/ needle \in ImpliesNodes /\ dom \in ImpliesNodes
       \/ needle \in ImpliesTrees /\ dom \in ImpliesTrees
    /\ out = None
    /\ sat = None
    /\ doc = << >> /\ input = << >> /\ cursor = 0
    /\ dom_vec = << >> /\ root_dom = None /\ err = None
    /\ p = TagIdle /\ q = TagIdle

\* Dom::p_implies_q(&needle, &dom)
PImpliesQ ==
    /\ pc = "search"
    /\ sat' = Some(p_implies_q(needle, dom))
    /\ pc' = "p_implies_q"
    /\ UNCHANGED <<p, q, parseVars, queryVars>>

\* Dom::p_implies_q_tree(&needle, &dom)
PImpliesQTree ==
    /\ pc = "search"
    /\ sat' = Some(p_implies_q_tree(needle, dom))
    /\ pc' = "p_implies_q_tree"
    /\ UNCHANGED <<p, q, parseVars, queryVars>>

ImpliesNext == PImpliesQ \/ PImpliesQTree \/ SearchDom

ImpliesSpec == ImpliesInit /\ [][ImpliesNext]_vars

(***************************************************************************)
(* Properties of the relation on Dom structures                            *)
(***************************************************************************)
\* s is t with some characters taken off its front and off its end
IsSubstring(s, t) ==
    \E i \in 0 .. Len(t) : \E j \in i .. Len(t) : SubSeq(t, i + 1, j) = s

\* The string content of a Text or of a Comment node
Content(d) ==
    IF d.dom_type = "Text" THEN Unwrap(d.text).text ELSE Unwrap(d.comment).comment

\* C12: the node comparison inside search_dom is the relation of
\* Dom::p_implies_q for every variant: a childless pattern node is reported
\* for a single candidate node exactly when p_implies_q holds of the two, and
\* for two Text or two Comment nodes exactly when the candidate's content
\* contains the pattern's content.
C12_SearchDomComparesAsPImpliesQ ==
    (pc = "search_dom" /\ IsNone(needle.children) /\ IsNone(dom.children)) =>
        /\ IsSome(out) <=> p_implies_q(needle, dom)
        /\ (needle.dom_type = dom.dom_type /\ dom.dom_type # "Tag") =>
              (IsSome(out) <=> IsSubstring(Content(needle), Content(dom)))

\* C15: Dom::p_implies_q is false for two nodes of different variants; for
\* two Text nodes and for two Comment nodes it is true exactly when q's
\* content contains p's content, so that an empty p content matches.
C15_PImpliesQVariantsAndContents ==
    pc = "p_implies_q" =>
        /\ needle.dom_type # dom.dom_type => sat = Some(FALSE)
        /\ (needle.dom_type = dom.dom_type /\ dom.dom_type # "Tag") =>
              /\ sat = Some(IsSubstring(Content(needle), Content(dom)))
              /\ Content(needle) = << >> => sat = Some(TRUE)

\* p_implies_q holds of a Text pattern that is a proper part of the
\* candidate's text, and of the empty pattern
C15_Witness ==
    /\ pc = "p_implies_q"
    /\ sat = Some(TRUE)
    /\ needle = TextDom(<<"y">>)
    /\ dom = TextDom(<<"x", "y">>)

\* p_implies_q holds of the roots and every child of pd has a child of qd
\* that it is covered by in the same way; a pd without children asks nothing
RECURSIVE TreeCovered(_, _)
TreeCovered(pd, qd) ==
    /\ p_implies_q(pd, qd)
    /\ \/ Kids(pd) = << >>
       \/ \A pc_ \in Range(Kids(pd)) : \E qc \in Range(Kids(qd)) : TreeCovered(pc_, qc)

\* A tree with one more attribute on the tag of its root
WithAttr(d, k, v) ==
    IF IsSome(d.tag) THEN [d EXCEPT !.tag = Some(set_attr(Unwrap(d.tag), k, v))] ELSE d

\* C16: Dom::p_implies_q_tree(p, q) is true exactly when p_implies_q(p, q)
\* holds and every child of p has a child of q of which p_implies_q_tree
\* holds (any order, one child of q serving several of p); one more child or
\* one more attribute on q keeps a true result true; and
\* p_implies_q_tree(t, t) holds for every tree t.
C16_PImpliesQTreeCoversChildren ==
    pc = "p_implies_q_tree" =>
        /\ sat = Some(TreeCovered(needle, dom))
        /\ needle = dom => sat = Some(TRUE)
        /\ (sat = Some(TRUE) /\ dom.dom_type = "Tag") =>
              /\ \A x \in ImpliesTreesOf(1) : p_implies_q_tree(needle, add_child(dom, x))
              /\ p_implies_q_tree(needle, WithAttr(dom, <<"i">>, <<"w">>))

\* A pattern with two children that one and the same child of the candidate
\* serves, the candidate holding another child in front
C16_Witness ==
    /\ pc = "p_implies_q_tree"
    /\ sat = Some(TRUE)
    /\ needle = TagDom(NameA, None, <<TagDom(NameA, None, << >>), TagDom(NameA, None, << >>)>>)
    /\ dom = TagDom(NameA, None,
                    <<TextDom(<<"x">>), TagDom(NameA, Some(KeyK :> <<"v">>), << >>)>>)

\* No two nodes of the tree are equal subtrees, so that a reported copy
\* stands for one node of the document
DistinctNodes(d) ==
    \A i, j \in DOMAIN PreOrder(d) : i # j => PreOrder(d)[i] # PreOrder(d)[j]

\* The nodes strictly below d
StrictlyBelow(d) == Range(Tail(PreOrder(d)))

\* C13: in a search_dom result no document node is reported twice and no
\* reported node lies strictly below another reported node.
C13_SearchDomMatchesAreMaximal ==
    (pc = "search_dom" /\ DistinctNodes(dom)) =>
        \A i, j \in DOMAIN Reported :
            i # j => /\ Reported[i] # Reported[j]
                     /\ Reported[i] \notin StrictlyBelow(Reported[j])

\* C14: search_dom returns the no-result value exactly when nothing is
\* reported (for a childless pattern: when no node of the document matches
\* it); otherwise a Tag named root, without attributes, whose children are
\* the reported matches, each the whole subtree of a document node; the
\* document and the pattern are the same after the call.
C14_SearchDomResultIsRootOfCopies ==
    /\ [](pc = "search_dom" =>
            /\ IsNone(needle.children) =>
                  (IsNone(out) <=> \A n \in Range(PreOrder(dom)) : ~DomMatch(n, needle))
            /\ IsSome(out) =>
                  /\ Unwrap(out).dom_type = "Tag"
                  /\ Unwrap(out).tag = Some(TagNew(<<"r", "o", "o", "t">>))
                  /\ Unwrap(out).text = None /\ Unwrap(out).comment = None
                  /\ IsSome(Unwrap(out).children)
                  /\ Unwrap(Unwrap(out).children) # << >>
                  /\ \A r \in Range(Unwrap(Unwrap(out).children)) :
                        r \in Range(PreOrder(dom)))
    /\ [][pc' = "search_dom" => (dom' = dom /\ needle' = needle)]_vars

\* The documented lists searched with the documented pattern: list1 comes
\* back under a root, with its items, the span and the texts below them
C14_Witness ==
    /\ pc = "search_dom"
    /\ dom = ListsDoc
    /\ needle = UlNeedle
    /\ IsSome(out)
    /\ Kids(Unwrap(out))[1] = List1
    /\ Kids(Kids(Kids(List1)[2])[1]) = <<TextDom(<<"1", "-", "2">>)>>

(***************************************************************************)
(* Properties of the relation on Tags                                      *)
(***************************************************************************)
\* The attribute names a tag can be given beside those of P and Q
FreshKeys(pt, qt) ==
    (AttrKeys \cup {<<"z">>}) \ (DOMAIN Entries(pt) \cup DOMAIN Entries(qt))

\* C17: when satisfy_sufficient_condition(P, Q) holds it also holds of P and
\* Q with one or two more attributes whose names do not occur in P.
C17_ExtraAttributesKeepTheMatch ==
    (pc = "tag_done" /\ sat = Some(TRUE)) =>
        \A k1 \in FreshKeys(p, q), v1 \in AttrValues :
            /\ satisfy_sufficient_condition(p, set_attr(q, k1, v1))
            /\ \A k2 \in FreshKeys(p, q) \ {k1}, v2 \in AttrValues :
                  satisfy_sufficient_condition(p, set_attr(set_attr(q, k1, v1), k2, v2))

\* P with one attribute, Q with that attribute and one more
C17_Witness ==
    /\ pc = "tag_done"
    /\ sat = Some(TRUE)
    /\ Entries(p) = (<<"k">> :> <<"v">>)
    /\ Entries(q) = (<<"k">> :> <<"v">>) @@ (<<"i">> :> <<"w">>)

\* C18: satisfy_sufficient_condition(T, T) is true for every Tag T, whatever
\* its name, its mapping (absent, empty or filled) and its flags.
C18_SatisfyIsReflexive ==
    (pc = "tag_done" /\ p = q) => sat = Some(TRUE)

\* Reflexivity seen on a tag without mapping and both flags set
C18_Witness ==
    /\ pc = "tag_done"
    /\ p = q
    /\ sat = Some(TRUE)
    /\ IsNone(p.attrs)
    /\ p.terminated /\ p.terminator

\* C19 as stated: the relation is not transitive, three Tags P, Q, R exist
\* with P => Q, Q => R and not P => R; and it is not symmetric.
C19_NotTransitiveNotSymmetric ==
    pc = "tag_done" =>
        /\ \E P \in Tags, Q \in Tags, R \in Tags :
              /\ satisfy_sufficient_condition(P, Q)
              /\ satisfy_sufficient_condition(Q, R)
              /\ ~satisfy_sufficient_condition(P, R)
        /\ \E P \in Tags, Q \in Tags :
              satisfy_sufficient_condition(P, Q) /\ ~satisfy_sufficient_condition(Q, P)

\* C19, amended: the relation is transitive, P => Q and Q => R give P => R
\* also when P or Q holds an empty (wildcard) value; it is not symmetric.
C19_TransitiveNotSymmetric ==
    pc = "tag_done" =>
        /\ sat = Some(TRUE) =>
              \A R \in Tags :
                  satisfy_sufficient_condition(q, R) => satisfy_sufficient_condition(p, R)
        /\ \E P \in Tags, Q \in Tags :
              satisfy_sufficient_condition(P, Q) /\ ~satisfy_sufficient_condition(Q, P)

\* P => Q by a wildcard value of P, Q => R for an R other than Q, and Q does
\* not satisfy P back
C19_Witness ==
    /\ pc = "tag_done"
    /\ sat = Some(TRUE)
    /\ Entries(p) = (<<"k">> :> << >>)
    /\ Entries(q) = (<<"k">> :> <<"v">>)
    /\ ~satisfy_sufficient_condition(q, p)
    /\ \E R \in Tags : R # q /\ satisfy_sufficient_condition(q, R)

(***************************************************************************)
(* Texts with self-closed tags, closers of the same name, texts and        *)
(* comments, for the leaves of the tree.                                   *)
(***************************************************************************)
LeafPieces ==
    { <<"<", "a", ">">>,
      <<"<", "/", "a", ">">>,
      <<"<", "a", " ", "/", ">">>,
      <<"x">>,
      CommentOpen \o <<"c">> \o CommentClose }

LeafSpec == ParseInit(Texts(LeafPieces, MaxPieces)) /\ [][Next]_vars

\* C20: in a tree returned by parse only Tag nodes that are not self-closed
\* have children; a Text, a Comment and a self-closed Tag are leaves,
\* whatever follows them in the text.
C20_OnlyOpenTagsHaveChildren ==
    pc = "done" =>
        \A n \in Range(PreOrder(Unwrap(root_dom))) :
            IsSome(n.children) =>
                /\ n.dom_type = "Tag"
                /\ IsSome(n.tag)
                /\ ~Unwrap(n.tag).terminated

\* `<a />x<!--c--></a>`: the self-closed tag, the text and the comment are
\* followed by a closer of the tag's name and stay leaves of the root
C20_Witness ==
    /\ pc = "done"
    /\ doc = <<"<", "a", " ", "/", ">", "x">> \o CommentOpen \o <<"c">> \o CommentClose
                \o <<"<", "/", "a", ">">>
    /\ Len(Kids(Unwrap(root_dom))) = 3
    /\ Unwrap(Kids(Unwrap(root_dom))[1].tag).terminated
    /\ Kids(Unwrap(root_dom))[2].dom_type = "Text"
    /\ Kids(Unwrap(root_dom))[3].dom_type = "Comment"
    /\ \A i \in 1 .. 3 : IsNone(Kids(Unwrap(root_dom))[i].children)

(***************************************************************************)
(* Properties of the tree reducer                                          *)
(***************************************************************************)
\* C21: no tree returned by parse holds a closing marker: every Tag node of
\* the tree has its terminator flag false, for well-formed and for other
\* texts, and the root is a Tag named root without attribute mapping.
C21_NoClosingMarkerInTree ==
    pc = "done" =>
        /\ Unwrap(root_dom).dom_type = "Tag"
        /\ Unwrap(root_dom).tag = Some(TagNew(<<"r", "o", "o", "t">>))
        /\ IsNone(Unwrap(Unwrap(root_dom).tag).attrs)
        /\ \A n \in Range(PreOrder(Unwrap(root_dom))) :
              IsTag(n) => ~Unwrap(n.tag).terminator

\* A closed tag followed by a closer that has no opener:
\* `<a>xy</a></a>` gives fragments with closing markers and a tree
C21_Witness ==
    /\ pc = "done"
    /\ \E i \in DOMAIN dom_vec : IsCloser(dom_vec[i])
    /\ \E i \in DOMAIN dom_vec : ~IsCloser(dom_vec[i])
    /\ doc = <<"<", "a", ">", "x", "y", "<", "/", "a", ">", "<", "/", "a", ">">>
    /\ Len(Kids(Unwrap(root_dom))) = 1

(***************************************************************************)
(* Properties of the segmenter at the end of the text                      *)
(***************************************************************************)
\* no '<' at or after the cursor
NoFurtherTag == \A i \in cursor + 1 .. Len(input) : input[i] # "<"

\* where the text of a turn begins: past the spaces and newlines the turn
\* skips
TextBgn ==
    IF expect(input, cursor, " ") \/ expect(input, cursor, "\n")
    THEN next_char(input, cursor) ELSE cursor

\* C22: a turn of the segmenter on text that no '<' follows emits exactly
\* one Text fragment, whose content is the rest of the trimmed input from
\* the first character that is not skipped through the last character, and
\* this ends the segmenter's loop: nothing is dropped and the text is not
\* split.
C22_TrailingTextIsOneWholeFragment ==
    [][(pc = "loop" /\ ~is_end(input, cursor) /\ NoFurtherTag) =>
          /\ pc' = "loop"
          /\ dom_vec' = Append(dom_vec,
                 set_text(DomNew("Text"), SubSeq(input, TextBgn + 1, Len(input))))
          /\ is_end(input, cursor')]_vars

\* Every '<' of inp has a '>' behind it, every comment opener a `-->` behind
\* its four characters, and every quote that opens an attribute value (a
\* quote right after an '=') the same quote behind it.
Terminated(inp) ==
    /\ \A i \in 0 .. Len(inp) - 1 :
          At(inp, i) = "<" => \E j \in i + 1 .. Len(inp) - 1 : At(inp, j) = ">"
    /\ \A i \in 0 .. Len(inp) - 4 :
          SubSeq(inp, i + 1, i + 4) = CommentOpen => OccursFrom(inp, CommentClose, i + 4)
    /\ \A j \in 1 .. Len(inp) - 1 :
          (At(inp, j) \in {"\"", "'"} /\ At(inp, j - 1) = "=")
              => \E k \in j + 1 .. Len(inp) - 1 : At(inp, k) = At(inp, j)

SliceErrors == {"invalid range", "out of input"}

\* C23: on a text where every tag, comment and quoted value is terminated,
\* parse does not fail with an error of get_string's range guard; an empty
\* comment `<!---->` is such a text.
C23_SliceGuardNeverSurfaces ==
    (pc = "err" /\ Terminated(input)) => Unwrap(err) \notin SliceErrors

(***************************************************************************)
(* Dom::search (dom/mod.rs): the pattern text is parsed by the parse       *)
(* process, then its first top-level node is looked up with search_dom.    *)
(* pc "err" is the return of parse's error, "dom_search" the return of Ok, *)
(* "panic" a failed unwrap.                                                *)
(***************************************************************************)
\* documents searched: tags named a around the text x
DomSearchDocs ==
    { new_root,
      RootDom(<<TagDom(NameA, None, <<TextDom(<<"x">>)>>)>>),
      RootDom(<<TagDom(NameA, None, << >>),
                TagDom(NameA, None, <<TagDom(NameA, None, <<TextDom(<<"x">>)>>)>>)>>) }

DomSearchInit ==
    /\ pc = "new"
    /\ doc \in Texts(LeafPieces, MaxPieces)
    /\ dom \in DomSearchDocs
    /\ input = << >> /\ cursor = 0
    /\ dom_vec = << >> /\ root_dom = None /\ err = None
    /\ needle = DomIdle /\ out = None
    /\ p = TagIdle /\ q = TagIdle /\ sat = None

\* Dom::search, lines 350-359, after parser::parse returned Ok
DomSearch ==
    /\ pc = "done"
    /\ IF IsNone(Unwrap(root_dom).children) \/ Unwrap(Unwrap(root_dom).children) = << >>
       THEN /\ pc' = "panic"
            /\ UNCHANGED <<needle, out>>
       ELSE \E nd \in {Unwrap(Unwrap(root_dom).children)[1]} :
            \E r \in {search_dom(dom, nd)} :
               /\ needle' = nd
               /\ out' = IF IsNone(r) THEN None
                         ELSE IF IsSome(Unwrap(r).children)
                              THEN Some(Unwrap(Unwrap(r).children))
                              ELSE None
               /\ pc' = "dom_search"
    /\ UNCHANGED <<dom, parseVars, tagVars>>

DomSearchNext == New \/ Seek \/ Turn \/ Reduce \/ DomSearch

DomSearchSpec == DomSearchInit /\ [][DomSearchNext]_vars

\* C24: once the pattern text is parsed, Dom::search returns; its value is
\* no result or the non-empty list of the children of search_dom's wrapper
\* for the first top-level node of the pattern.  It does not abort, also for
\* a pattern whose tree has no top-level node.
C24_DomSearchReturns ==
    [][pc = "done" =>
          /\ pc' = "dom_search"
          /\ \/ out' = None
             \/ /\ IsSome(out') /\ Unwrap(out') # << >>
                /\ IsSome(search_dom(dom, Kids(Unwrap(root_dom))[1]))
                /\ Unwrap(out') = Kids(Unwrap(search_dom(dom, Kids(Unwrap(root_dom))[1])))]_vars

\* C25: after a successful parse the nodes below the root, read a node
\* before its children and children left to right, are exactly the
\* fragments that are not closing markers, each once and in the order the
\* segmenter emitted them, whatever closing markers the fragments hold.
C25_EveryFragmentOnceInTree ==
    pc = "done" => Heads(Unwrap(root_dom)) = Declared(dom_vec)

(***************************************************************************)
(* Texts with tags opened inside tags of the same name and with closing    *)
(* markers of another name                                                 *)
(***************************************************************************)
NestPieces ==
    { <<"<", "a", ">">>,
      <<"<", "/", "a", ">">>,
      <<"x">>,
      <<"<", "b", ">">>,
      <<"<", "/", "b", ">">> }

NestSpec == ParseInit(Texts(NestPieces, MaxNest)) /\ [][Next]_vars

\* fragment j is a closing marker with the name of the tag of fragment i
ClosesName(vec, i, j) ==
    IsCloser(vec[j]) /\ Unwrap(vec[j].tag).name = Unwrap(vec[i].tag).name

\* fragment i is an opening tag, not self-closed, with a closing marker of
\* its name later in the fragments
HasCloser(vec, i) ==
    /\ IsTag(vec[i]) /\ ~IsCloser(vec[i]) /\ ~Unwrap(vec[i].tag).terminated
    /\ \E j \in i + 1 .. Len(vec) : ClosesName(vec, i, j)

\* the first closing marker with the name of the tag of fragment i
FirstCloser(vec, i) ==
    CHOOSE j \in i + 1 .. Len(vec) :
        ClosesName(vec, i, j) /\ \A k \in i + 1 .. j - 1 : ~ClosesName(vec, i, k)

\* The closing marker that ends the scope which begins at fragment k: the
\* first closing marker from k on, of whatever name, that is neither the
\* adjacent closer nor the end of the scope of a tag opened in between;
\* Len(vec) + 1 when there is none.
RECURSIVE ScopeEnd(_, _)
ScopeEnd(vec, k) ==
    IF k > Len(vec) THEN Len(vec) + 1
    ELSE IF IsCloser(vec[k]) THEN k
    ELSE IF HasCloser(vec, k)
         THEN IF ClosesName(vec, k, k + 1)
              THEN ScopeEnd(vec, k + 2)
              ELSE ScopeEnd(vec, ScopeEnd(vec, k + 1) + 1)
         ELSE ScopeEnd(vec, k + 1)

\* fragment i is an opening tag whose first same-named closing marker is not
\* the next fragment, and it is in the tree
FarCloserInTree(i) ==
    /\ HasCloser(dom_vec, i)
    /\ FirstCloser(dom_vec, i) > i + 1
    /\ DeclaredIndex(i) + 1 <= Len(PreOrder(Unwrap(root_dom)))

\* the node of fragment i
NodeOf(i) == PreOrder(Unwrap(root_dom))[DeclaredIndex(i) + 1]

\* the children that the reduction of the fragments vec gives the node d
Reduction(vec, d) == Kids(create_dom_tree(vec, d).parent)

\* The fragments of the scope that begins at fragment k which lie in the
\* scope of no tag opened in it
RECURSIVE Tops(_, _)
Tops(vec, k) ==
    IF k > Len(vec) \/ IsCloser(vec[k]) THEN << >>
    ELSE <<vec[k]>> \o
         Tops(vec, IF HasCloser(vec, k)
                   THEN IF ClosesName(vec, k, k + 1) THEN k + 2
                        ELSE ScopeEnd(vec, k + 1) + 1
                   ELSE k + 1)

\* the children of d, each without its children
Bare(d) == [j \in 1 .. Len(Kids(d)) |-> [Kids(d)[j] EXCEPT !.children = None]]

\* C26: an opening tag whose first same-named closing marker is not adjacent
\* has as children the reduction of the fragments between the tag and that
\* first same-named closing marker, as in `<a><a>x</a>x</a>`.
C26_ChildrenUpToFirstSameNamedCloser ==
    pc = "done" =>
        \A i \in DOMAIN dom_vec :
            FarCloserInTree(i) =>
                Kids(NodeOf(i)) =
                    Reduction(SubSeq(dom_vec, i + 1, FirstCloser(dom_vec, i) - 1), dom_vec[i])

\* C26, amended: the nodes below such a tag are the fragments, closing
\* markers left out, between the tag and the closing marker that ends its
\* scope, and its children are those of them that lie in the scope of no tag
\* opened in between.
C26_ChildrenUpToScopeEnd ==
    pc = "done" =>
        \A i \in DOMAIN dom_vec :
            FarCloserInTree(i) =>
                /\ Heads(NodeOf(i)) =
                       Declared(SubSeq(dom_vec, i + 1, ScopeEnd(dom_vec, i + 1) - 1))
                /\ Bare(NodeOf(i)) = Tops(dom_vec, i + 1)

\* `<a><a>x</a>x</a>`: the inner a takes the first `</a>`, and the outer a
\* has the inner a and the second x as children
C26_Witness ==
    /\ pc = "done"
    /\ doc = <<"<", "a", ">", "<", "a", ">", "x", "<", "/", "a", ">", "x",
               "<", "/", "a", ">">>
    /\ FarCloserInTree(1)
    /\ FirstCloser(dom_vec, 1) = 4
    /\ ScopeEnd(dom_vec, 2) = 6
    /\ Len(Kids(NodeOf(1))) = 2
    /\ Kids(Kids(NodeOf(1))[1]) = <<TextDom(<<"x">>)>>

\* how deep each node of the tree d lies, in the order of PreOrder(d); d
\* itself lies at depth n
RECURSIVE Depths(_, _)
Depths(d, n) ==
    LET F[i \in 0 .. Len(Kids(d))] ==
            IF i = 0 THEN <<n>> ELSE F[i - 1] \o Depths(Kids(d)[i], n + 1)
    IN  F[Len(Kids(d))]

\* The following siblings of the node of fragment i, each without its
\* children
FollowingSiblings(i) ==
    LET nodes == PreOrder(Unwrap(root_dom))
        depth == Depths(Unwrap(root_dom), 0)
        at == DeclaredIndex(i) + 1
        sib(k) == /\ k > at
                  /\ depth[k] = depth[at]
                  /\ \A m \in at + 1 .. k : depth[m] >= depth[at]
        G[k \in 0 .. Len(nodes)] ==
            IF k = 0 THEN << >>
            ELSE IF sib(k) THEN Append(G[k - 1], [nodes[k] EXCEPT !.children = None])
                 ELSE G[k - 1]
    IN  G[Len(nodes)]

\* fragment i is an opening tag, not self-closed, and it is in the tree
OpenTagInTree(i) ==
    /\ IsTag(dom_vec[i]) /\ ~IsCloser(dom_vec[i]) /\ ~Unwrap(dom_vec[i].tag).terminated
    /\ DeclaredIndex(i) + 1 <= Len(PreOrder(Unwrap(root_dom)))

\* C27: an opening tag with no same-named closing marker behind it is a
\* childless node, and the fragments behind it, up to the end of the scope
\* it stands in, are its following siblings; an opening tag with its
\* same-named closing marker right behind it is a childless node, and the
\* fragments behind that closing marker are its following siblings: the
\* closing marker is consumed and ends no scope.
C27_UnclosedAndEmptyTagsAreChildless ==
    pc = "done" =>
        \A i \in DOMAIN dom_vec :
            OpenTagInTree(i) =>
                /\ ~HasCloser(dom_vec, i) =>
                      /\ Kids(NodeOf(i)) = << >>
                      /\ FollowingSiblings(i) = Tops(dom_vec, i + 1)
                /\ (HasCloser(dom_vec, i) /\ FirstCloser(dom_vec, i) = i + 1) =>
                      /\ Kids(NodeOf(i)) = << >>
                      /\ FollowingSiblings(i) = Tops(dom_vec, i + 2)

\* `<a><b></b>x</b>`: a is not closed, b is closed at once; a, b and x are
\* the children of the root
C27_Witness ==
    /\ pc = "done"
    /\ doc = <<"<", "a", ">", "<", "b", ">", "<", "/", "b", ">", "x", "<", "/", "b", ">">>
    /\ OpenTagInTree(1) /\ ~HasCloser(dom_vec, 1)
    /\ OpenTagInTree(2) /\ FirstCloser(dom_vec, 2) = 3
    /\ Len(FollowingSiblings(1)) = 2
    /\ FollowingSiblings(2) = <<TextDom(<<"x">>)>>

(***************************************************************************)
(* The cursor process: Input::new on a text, then any sequence of calls of *)
(* the methods of Input (parser/input.rs).  out is the last call with its  *)
(* arguments and its result.  pc "input_new" is before Input::new, "input" *)
(* after its Ok, "err" after its Err, "panic" after a panic.               *)
(***************************************************************************)
InputChars == {"a", "b", " "}

InputTexts == UNION {[1 .. n -> InputChars] : n \in 0 .. MaxInput}

\* arguments of set_cursor and get_string: every index and two behind
InputArgs == 0 .. MaxInput + 1

\* arguments of find_str
InputNeedles == UNION {[1 .. n -> {"a", "b"}] : n \in 1 .. 3}

\* usize::MAX, the value of `len - 1` for len = 0 in a build without
\* overflow checks, named by its residue modulo 2^64
UsizeMax == -1

InputInit ==
    /\ pc = "input_new"
    /\ doc \in InputTexts
    /\ input = << >> /\ cursor = 0
    /\ dom_vec = << >> /\ root_dom = None /\ err = None
    /\ p = TagIdle /\ q = TagIdle /\ sat = None
    /\ dom = DomIdle /\ needle = DomIdle /\ out = None

InputRest == <<doc, input, dom_vec, root_dom, err, p, q, sat, dom, needle>>

\* Input::new(doc)
InputNewCall ==
    /\ pc = "input_new"
    /\ \E r \in {InputNew(doc)} :
       IF r.ok
       THEN input' = r.input /\ cursor' = 0 /\ pc' = "input" /\ err' = err
       ELSE pc' = "err" /\ err' = Some(r.err) /\ UNCHANGED <<input, cursor>>
    /\ out' = [op |-> "new"]
    /\ UNCHANGED <<doc, dom_vec, root_dom, p, q, sat, dom, needle>>

\* input.set_cursor(c); `self.input.len() - 1` on an empty buffer panics in
\* a build with overflow checks and is usize::MAX in one without
SetCursorCall ==
    /\ pc = "input"
    /\ \E c \in InputArgs :
          /\ out' = [op |-> "set_cursor", a |-> c]
          /\ IF Len(input) = 0
             THEN \/ pc' = "panic" /\ cursor' = cursor
                  \/ pc' = "input" /\ cursor' = UsizeMax
             ELSE pc' = pc /\ cursor' = set_cursor(input, c)
    /\ UNCHANGED InputRest

\* input.next(); on an empty buffer `len - 1 <= cursor` panics or compares
\* with usize::MAX
NextCall ==
    /\ pc = "input"
    /\ out' = [op |-> "next"]
    /\ IF Len(input) = 0
       THEN \/ pc' = "panic" /\ cursor' = cursor
            \/ /\ cursor # UsizeMax /\ cursor <= MaxInput
               /\ pc' = "input" /\ cursor' = cursor + 1
            \/ cursor = UsizeMax /\ pc' = "input" /\ cursor' = cursor
       ELSE pc' = pc /\ cursor' = next(input, cursor)
    /\ UNCHANGED InputRest

\* input.next_char(); on an empty buffer as next, the for loop is empty
NextCharCall ==
    /\ pc = "input"
    /\ out' = [op |-> "next_char"]
    /\ IF Len(input) = 0
       THEN \/ pc' = "panic" /\ cursor' = cursor
            \/ /\ cursor # UsizeMax /\ cursor <= MaxInput
               /\ pc' = "input" /\ cursor' = cursor + 1
            \/ cursor = UsizeMax /\ pc' = "input" /\ cursor' = cursor
       ELSE pc' = pc /\ cursor' = next_char(input, cursor)
    /\ UNCHANGED InputRest

\* input.get_string(bgn, end)
GetStringCall ==
    /\ pc = "input"
    /\ \E bgn \in InputArgs : \E end \in InputArgs :
          out' = [op |-> "get_string", a |-> bgn, b |-> end,
                  res |-> get_string(input, bgn, end)]
    /\ UNCHANGED <<pc, cursor>>
    /\ UNCHANGED InputRest

\* the cursor as `len <= cursor` reads it
CursorValue == IF cursor = UsizeMax THEN Len(input) + 1 ELSE cursor

\* input.find(c)
FindCall ==
    /\ pc = "input"
    /\ \E c \in InputChars :
          out' = [op |-> "find", a |-> c, res |-> find(input, CursorValue, c),
                  reads |-> find_reads(input, CursorValue, c)]
    /\ UNCHANGED <<pc, cursor>>
    /\ UNCHANGED InputRest

\* input.find_str(s)
FindStrCall ==
    /\ pc = "input"
    /\ \E s \in InputNeedles :
          out' = [op |-> "find_str", a |-> s, res |-> find_str(input, CursorValue, s),
                  reads |-> find_str_reads(input, CursorValue, s)]
    /\ UNCHANGED <<pc, cursor>>
    /\ UNCHANGED InputRest

InputNext ==
    \/ InputNewCall
    \/ SetCursorCall
    \/ NextCall
    \/ NextCharCall
    \/ GetStringCall
    \/ FindCall
    \/ FindStrCall

InputSpec == InputInit /\ [][InputNext]_vars

(***************************************************************************)
(* Properties of the cursor                                                *)
(***************************************************************************)
\* C28: a buffer that Input::new constructs is not empty, also for a text
\* that is empty once its trailing whitespace is trimmed, and after any
\* calls of set_cursor, next and next_char the cursor is an index of the
\* buffer: set_cursor(c) with c >= len stores len - 1, next on the last
\* index changes nothing, and next_char moves one position and then past
\* the spaces and newlines that follow, not past the last index.
C28_BufferNonEmptyCursorInside ==
    /\ [](pc = "input" => (Len(input) > 0 /\ 0 <= cursor /\ cursor <= Len(input) - 1))
    /\ [][(pc = "input" /\ out'.op = "set_cursor" /\ out'.a >= Len(input))
             => (pc' = "input" /\ cursor' = Len(input) - 1)]_vars
    /\ [][(pc = "input" /\ out'.op = "next" /\ cursor = Len(input) - 1)
             => (pc' = "input" /\ cursor' = cursor)]_vars
    /\ [][(pc = "input" /\ out'.op = "next_char" /\ cursor < Len(input) - 1)
             => /\ pc' = "input"
                /\ cursor' > cursor /\ cursor' <= Len(input) - 1
                /\ \A i \in cursor + 1 .. cursor' - 1 : IsSpace(At(input, i))
                /\ (cursor' < Len(input) - 1 => ~IsSpace(At(input, cursor')))]_vars

\* C29: get_string(bgn, end) returns the characters at bgn .. end - 1 when
\* bgn < end and all these positions are inside the buffer, a range that
\* ends with the last character of the buffer included; it fails exactly
\* for the other ranges, and it leaves the cursor alone.
C29_GetStringReturnsEveryInsideRange ==
    [][(pc = "input" /\ out'.op = "get_string") =>
          /\ cursor' = cursor
          /\ out'.res.ok = (out'.a < out'.b /\ out'.b <= Len(input))
          /\ out'.res.ok => out'.res.val = SubSeq(input, out'.a + 1, out'.b)]_vars

\* s occurs in the buffer at index i (0-based), whole and inside the buffer
OccursAt(s, i) ==
    i + Len(s) <= Len(input) /\ SubSeq(input, i + 1, i + Len(s)) = s

\* the smallest index of I, or not found when I is empty
Smallest(I) == IF I = {} THEN None ELSE Some(CHOOSE i \in I : \A k \in I : i <= k)

\* C30: find(c) and find_str(s) for non-empty s return the smallest index at
\* or after the cursor where c, respectively the whole of s, occurs in the
\* buffer, and not found exactly when there is none; they read the buffer at
\* its indices only and leave the cursor alone.
C30_FindReturnsFirstOccurrence ==
    /\ [][(pc = "input" /\ out'.op = "find") =>
             /\ cursor' = cursor
             /\ out'.res = Smallest({i \in CursorValue .. Len(input) - 1 :
                                        OccursAt(<<out'.a>>, i)})
             /\ out'.reads \subseteq 0 .. Len(input) - 1]_vars
    /\ [][(pc = "input" /\ out'.op = "find_str") =>
             /\ cursor' = cursor
             /\ out'.res = Smallest({i \in CursorValue .. Len(input) - 1 :
                                        OccursAt(out'.a, i)})
             /\ out'.reads \subseteq 0 .. Len(input) - 1]_vars

\* In "aaab" the partial match of "aab" at 0 overlaps its occurrence at 1;
\* the search reads the buffer up to its last index
C30_Witness ==
    /\ pc = "input"
    /\ input = <<"a", "a", "a", "b">>
    /\ cursor = 0
    /\ out.op = "find_str"
    /\ out.a = <<"a", "a", "b">>
    /\ out.res = Some(1)
    /\ 3 \in out.reads

====
